---------------------------- MODULE Spec2Model ----------------------------
(***************************************************************************)
(* A model of typed_phy: type-level units (a 7-component dimension vector  *)
(* and a rational scale), type-level gcd / simplification, unit equality,  *)
(* and the arithmetic of Quantity<S, U>.                                   *)
(*                                                                         *)
(* typenum's Unsigned and Integer types are unbounded and normalised, so a *)
(* type-level number is modelled by the integer it denotes, and equality   *)
(* of two such types by equality of the integers.  A trait bound that has  *)
(* no impl (a compile error) is modelled as a rejected operation.          *)
(*                                                                         *)
(* The library is a set of pure functions.  Each is an operator; four      *)
(* small machines draw the inputs in Init and apply the operations:        *)
(*   SpecFraction   gcd and Simplify on a Fraction<N, D>                   *)
(*   SpecUnit       Mul / Div / UnitEq on Unit<D, R>                       *)
(*   SpecQuantity   the operators of Quantity<S, U>                        *)
(*   SpecMacro      the expansion of Unit![...], one macro arm per step     *)
(*   SpecReach      the units built from the base units by the prefixes,    *)
(*                  MulBy, Mul, Div and Simplify                            *)
(*   SpecSimple     the statements of quantity.rs's test `simple`, in order *)
(***************************************************************************)
EXTENDS Integers, Sequences, FiniteSets, TLC

VARIABLES
    \* ---- fraction machine (gcd.rs, simplify.rs)
    fin,        \* the Fraction<N, D> the machine was given
    frac,       \* the current Fraction (after the simplifications so far)
    fprev,      \* the Fraction before the last simplification
    nsimp,      \* how many times Simplify has been applied
    g,          \* last <N as Gcd<D>>::Output (0: none computed)
    fstatus,    \* "none" | "gcd" | "simplified" | "no_impl"
    \* ---- unit machine (unit.rs, dimensions.rs, fraction.rs, eq.rs)
    ua, ub, uc, \* operand units
    uop,        \* "none" | "mul" | "div" | "eq" | "mul3"
    ures,       \* result unit of the last operation
    ures2,      \* second result ("mul3": the right-nested product)
    ueq,        \* "eq": whether the UnitEq bound is satisfied
    \* ---- quantity machine (quantity.rs)
    lhs, rhs,   \* operand quantities [storage, unit]
    overflow_checks, \* the build: TRUE panics on overflow, FALSE wraps
    qop,        \* name of the last operation ("none" initially)
    qT,         \* the generic unit argument T of set_unit / into_unit
    qres,       \* [status, storage, unit] of the last operation
    numops,     \* storage-level arithmetic operations executed so far
    \* ---- macro machine (macros.rs)
    expr,       \* the expression given to Unit![...]: a sequence of terms
    mc,         \* the macro call being expanded [pc, acc, stack, rest, res]
    work,       \* [pushed, applied, steps]: `op type` pairs taken from the
                \* input, @ty_op applications of a pair, and expansions so far
    \* ---- reach machine (prefixes.rs, units.rs, unit.rs, simplify.rs)
    ru,         \* the unit built so far
    rop,        \* how it was built last ("base" initially)
    \* ---- the test `simple` (quantity.rs)
    sc          \* [pc, a, b, c, k, length, time, speed]

fvars == <<fin, frac, fprev, nsimp, g, fstatus>>
uvars == <<ua, ub, uc, uop, ures, ures2, ueq>>
qvars == <<lhs, rhs, overflow_checks, qop, qT, qres, numops>>
mvars == <<expr, mc, work>>
rvars == <<ru, rop>>
svars == <<sc>>
vars == <<fvars, uvars, qvars, mvars, rvars, svars>>

-----------------------------------------------------------------------------
(* Bounds of the model *)

\* numerators and denominators drawn for the fraction machine: 0..MaxNum
MaxNum == 42
\* how many times the fraction machine applies Simplify
MaxSimplify == 2
\* numerators and denominators drawn for the unit machine: 0..MaxRatio
MaxRatio == 4
\* storage values drawn for the quantity machine: -MaxVal..MaxVal, MIN, MAX
MaxVal == 3
\* terms of the expressions drawn for the macro machine: 1..MaxTerms
MaxTerms == 3
\* exponents drawn for the macro machine: -MaxExp..MaxExp
MaxExp == 5
\* numerators and denominators of the units the reach machine builds:
\* 0..MaxScale
MaxScale == 1000
\* exponents of the units the reach machine builds: -MaxDim..MaxDim
MaxDim == 1

-----------------------------------------------------------------------------
(* Type-level fractions: fraction.rs *)

Fraction(n, d) == [numerator |-> n, divisor |-> d]

One == Fraction(1, 1)

\* impl Mul<Fraction<A, B>> for Fraction<N, D>: (n/d) * (a/b) = (n*a)/(d*b)
FractionMulSwapped(f, r) ==
    Fraction(f.numerator * r.divisor, f.divisor * r.numerator)

FractionMul(f, r) ==
    Fraction(f.numerator * r.numerator, f.divisor * r.divisor)

\* impl Div<Fraction<A, B>> for Fraction<N, D>: (n/d) / (a/b) = (n*b)/(d*a)
FractionDiv(f, r) ==
    Fraction(f.numerator * r.divisor, f.divisor * r.numerator)

-----------------------------------------------------------------------------
(* Type-level gcd: gcd.rs *)

Max(a, b) == IF a >= b THEN a ELSE b
Min(a, b) == IF a <= b THEN a ELSE b

\* There is an impl of Gcd for every pair of typenum unsigned integers but
\* (U0, U0): the two zero rules need the other side to be a UInt.
GcdImplemented(u, v) == ~(u = 0 /\ v = 0)

\* The both-even rule without the doubling.
RECURSIVE GcdNoDoubling(_, _)
GcdNoDoubling(u, v) ==
    IF u = 0 THEN v
    ELSE IF v = 0 THEN u
    ELSE IF u % 2 = 0 /\ v % 2 = 0 THEN GcdNoDoubling(u \div 2, v \div 2)
    ELSE IF u % 2 = 0 THEN GcdNoDoubling(u \div 2, v)
    ELSE IF v % 2 = 0 THEN GcdNoDoubling(u, v \div 2)
    ELSE GcdNoDoubling((Max(u, v) - Min(u, v)) \div 2, Min(u, v))

\* <U as Gcd<V>>::Output, by the impl that matches the last bits of U and V
\* (Even<M> = UInt<M, B0>, Odd<M> = UInt<M, B1>).
RECURSIVE Gcd(_, _)
Gcd(u, v) ==
    IF u = 0 THEN v
    ELSE IF v = 0 THEN u
    ELSE IF u % 2 = 0 /\ v % 2 = 0 THEN 2 * Gcd(u \div 2, v \div 2)
    ELSE IF u % 2 = 0 THEN Gcd(u \div 2, v)
    ELSE IF v % 2 = 0 THEN Gcd(u, v \div 2)
    ELSE Gcd((Max(u, v) - Min(u, v)) \div 2, Min(u, v))

-----------------------------------------------------------------------------
(* Simplify: simplify.rs *)

\* Divides the numerator only.
SimplifyNumeratorOnly(f) ==
    Fraction(f.numerator \div Gcd(f.numerator, f.divisor), f.divisor)

\* Cancels a single factor of two.
SimplifyHalving(f) ==
    IF f.numerator % 2 = 0 /\ f.divisor % 2 = 0
       /\ GcdImplemented(f.numerator, f.divisor)
    THEN Fraction(f.numerator \div 2, f.divisor \div 2)
    ELSE f

\* Fraction<Quot<N, Gcd<N, D>>, Quot<D, Gcd<N, D>>>
Simplify(f) ==
    Fraction(f.numerator \div Gcd(f.numerator, f.divisor),
             f.divisor \div Gcd(f.numerator, f.divisor))

\* The bounds N: Gcd<D>, N: Div<..>, D: Div<..> of the impl
SimplifyImplemented(f) == GcdImplemented(f.numerator, f.divisor)

-----------------------------------------------------------------------------
(* Type-level dimensions: dimensions.rs.  A Dimensions<L, M, T, I, O, N, J>  *)
(* is the tuple of its seven exponents.                                      *)

NDims == 7

Dimensions(L, M, T, I, O, N, J) == <<L, M, T, I, O, N, J>>

\* Subtracts the exponents, as Div does.
DimensionsMulAsSub(a, b) == [i \in 1..NDims |-> a[i] - b[i]]

\* impl Mul<U> for Dimensions: every exponent is <X as Add<U::X>>::Output
DimensionsMul(a, b) == [i \in 1..NDims |-> a[i] + b[i]]

\* impl Div<U> for Dimensions: every exponent is <X as Sub<U::X>>::Output
DimensionsDiv(a, b) == [i \in 1..NDims |-> a[i] - b[i]]

-----------------------------------------------------------------------------
(* Units: unit.rs *)

Unit(D, R) == [dimensions |-> D, ratio |-> R]

\* impl Mul<U> for Unit<D, R>: Unit<D * U::Dimensions, R * U::Ratio>
UnitMul(u, r) ==
    Unit(DimensionsMul(u.dimensions, r.dimensions), FractionMul(u.ratio, r.ratio))

\* Divides the dimensions and multiplies the ratios.
UnitDivMulRatio(u, r) ==
    Unit(DimensionsDiv(u.dimensions, r.dimensions), FractionMul(u.ratio, r.ratio))

\* impl Div<U> for Unit<D, R>: Unit<D / U::Dimensions, R / U::Ratio>
UnitDiv(u, r) ==
    Unit(DimensionsDiv(u.dimensions, r.dimensions), FractionDiv(u.ratio, r.ratio))

\* Leaves the ratio as it is.
UnitSimplifyNothing(u) == Unit(u.dimensions, u.ratio)

\* impl Simplify for Unit<D, R> where R: Simplify: Unit<D, R::Output>
UnitSimplify(u) == Unit(u.dimensions, Simplify(u.ratio))

-----------------------------------------------------------------------------
(* Equality relations: eq.rs.  Each is a trait with one blanket impl; the     *)
(* relation holds when the impl's where-clauses do.                           *)

\* sealed::DimensionsEq: Rhs: DimensionsTrait<Length = D::Length, ...>
DimensionsEq(d, r) == \A i \in 1..NDims : r[i] = d[i]

\* Compares the numerators and the divisors one by one.
FractionEqExact(f, r) ==
    f.numerator = r.numerator /\ f.divisor = r.divisor

\* sealed::FractionEq<Fraction<A, B>> for Fraction<U, V>:
\*   A: Mul<V>, U: Mul<B, Output = A::Output>
FractionEq(f, r) == f.numerator * r.divisor = r.numerator * f.divisor

\* sealed::UnitEq: U::Dimensions: DimensionsEq<Rhs::Dimensions>,
\*                 U::Ratio: FractionEq<Rhs::Ratio>
UnitEq(u, r) ==
    /\ DimensionsEq(u.dimensions, r.dimensions)
    /\ FractionEq(u.ratio, r.ratio)

-----------------------------------------------------------------------------
(* Prefixes and named units: prefixes.rs, units.rs, macros.rs *)

\* MulBy<U, X>: the dimensions of U, <U::Ratio as Mul<Frac![X / U1]>>::Output
MulBy(U, X) == Unit(U.dimensions, FractionMul(U.ratio, Fraction(X, 1)))

\* Divides the numerator by X.
DivByNumerator(U, X) ==
    Unit(U.dimensions, Fraction(U.ratio.numerator \div X, U.ratio.divisor))

\* DivBy<U, X>: the dimensions of U, <U::Ratio as Div<Frac![X / U1]>>::Output
DivBy(U, X) == Unit(U.dimensions, FractionDiv(U.ratio, Fraction(X, 1)))

Kilo(U) == MulBy(U, 1000)
Deci(U) == DivBy(U, 10)
Milli(U) == DivBy(U, 1000)

Dimensionless == Unit(Dimensions(0, 0, 0, 0, 0, 0, 0), One)
Metre == Unit(Dimensions(1, 0, 0, 0, 0, 0, 0), One)
KiloGram == Unit(Dimensions(0, 1, 0, 0, 0, 0, 0), One)
Second == Unit(Dimensions(0, 0, 1, 0, 0, 0, 0), One)
Ampere == Unit(Dimensions(0, 0, 0, 1, 0, 0, 0), One)
Kelvin == Unit(Dimensions(0, 0, 0, 0, 1, 0, 0), One)
Mole == Unit(Dimensions(0, 0, 0, 0, 0, 1, 0), One)
Candela == Unit(Dimensions(0, 0, 0, 0, 0, 0, 1), One)

\* Unit![Metre / Second]: NoOpMul * Metre / Second
MetrePerSecond == UnitDiv(Metre, Second)
\* Unit![KiloGram * Metre / Second ^ 2]
Newton == UnitDiv(UnitDiv(UnitMul(KiloGram, Metre), Second), Second)

\* Unit![KiloGram * Metre ^ 2 / Second ^ 3]
Watt ==
    UnitDiv(UnitDiv(UnitDiv(UnitMul(UnitMul(KiloGram, Metre), Metre), Second),
                    Second), Second)

Minute == MulBy(Second, 60)
Hour == MulBy(Minute, 60)

-----------------------------------------------------------------------------
(* The unit machine *)

\* Dimension vectors drawn for the operands: none, each base quantity alone,
\* a derived unit, and the vector of unit.rs's display_other test.
DimensionInputs ==
    { Dimensionless.dimensions, Metre.dimensions, KiloGram.dimensions,
      Second.dimensions, Ampere.dimensions, Kelvin.dimensions,
      Mole.dimensions, Candela.dimensions, Newton.dimensions,
      Dimensions(1, -2, 1, -1, -1, 1, 1) }

UnitInputs ==
    { Unit(D, Fraction(n, d)) :
        D \in DimensionInputs, n \in 0..MaxRatio, d \in 0..MaxRatio }

\* The third operand of a chained product is a named unit.
Catalogue ==
    { Dimensionless, Metre, Second, Newton, Kilo(Metre), Hour,
      Unit(Dimensions(1, -2, 1, -1, -1, 1, 1), Fraction(15, 71)) }

InitUnit ==
    /\ ua \in UnitInputs
    /\ ub \in UnitInputs
    /\ uc = Dimensionless
    /\ uop = "none"
    /\ ures = Dimensionless
    /\ ures2 = Dimensionless
    /\ ueq = FALSE

\* <Ua as Mul<Ub>>::Output
UnitMulOp ==
    /\ uop = "none"
    /\ uop' = "mul"
    /\ ures' = UnitMul(ua, ub)
    /\ UNCHANGED <<ua, ub, uc, ures2, ueq>>
    /\ UNCHANGED <<fvars, qvars, mvars, rvars, svars>>

\* <Ua as Div<Ub>>::Output
UnitDivOp ==
    /\ uop = "none"
    /\ uop' = "div"
    /\ ures' = UnitDiv(ua, ub)
    /\ UNCHANGED <<ua, ub, uc, ures2, ueq>>
    /\ UNCHANGED <<fvars, qvars, mvars, rvars, svars>>

\* whether Ua: UnitEq<Ub>
UnitEqOp ==
    /\ uop = "none"
    /\ uop' = "eq"
    /\ ueq' = UnitEq(ua, ub)
    /\ UNCHANGED <<ua, ub, uc, ures, ures2>>
    /\ UNCHANGED <<fvars, qvars, mvars, rvars, svars>>

\* <<Ua as Mul<Ub>>::Output as Mul<Uc>>::Output and
\* <Ua as Mul<<Ub as Mul<Uc>>::Output>>::Output
UnitMul3Op ==
    /\ uop = "none"
    /\ \E c \in Catalogue :
        /\ uc' = c
        /\ ures' = UnitMul(UnitMul(ua, ub), c)
        /\ ures2' = UnitMul(ua, UnitMul(ub, c))
    /\ uop' = "mul3"
    /\ UNCHANGED <<ua, ub, ueq>>
    /\ UNCHANGED <<fvars, qvars, mvars, rvars, svars>>

\* <R as Simplify>::Output for the result R of Mul or Div
UnitSimplifyOp ==
    /\ uop \in {"mul", "div"}
    /\ SimplifyImplemented(ures.ratio)
    /\ uop' = IF uop = "mul" THEN "mul_simplified" ELSE "div_simplified"
    /\ ures' = UnitSimplify(ures)
    /\ UNCHANGED <<ua, ub, uc, ures2, ueq>>
    /\ UNCHANGED <<fvars, qvars, mvars, rvars, svars>>

-----------------------------------------------------------------------------
(* The reach machine: the units that can be written, starting from a base   *)
(* unit, with the prefixes, MulBy, Mul, Div and Simplify.                   *)

BaseUnits == { Metre, KiloGram, Second, Ampere, Kelvin, Mole, Candela }

\* multipliers given to MulBy: the U60 and U24 of units.rs
Multipliers == { 24, 60 }

\* right operands of Mul and Div (the unit built so far is one as well)
ReachOperands == { Second, Minute, Milli(Second) }

InitReach ==
    /\ ru \in BaseUnits
    /\ rop = "base"

\* whether a unit is within the bounds of the machine
InBounds(u) ==
    /\ \A i \in 1..NDims : u.dimensions[i] \in (-MaxDim)..MaxDim
    /\ u.ratio.numerator \in 0..MaxScale
    /\ u.ratio.divisor \in 0..MaxScale

\* the frame of a step of the reach machine: u is written
Built(name, u) ==
    /\ InBounds(u)
    /\ ru' = u
    /\ rop' = name
    /\ UNCHANGED <<fvars, uvars, qvars, mvars, svars>>

\* Kilo<U>, Deci<U>, Milli<U>
KiloStep == Built("kilo", Kilo(ru))
DeciStep == Built("deci", Deci(ru))
MilliStep == Built("milli", Milli(ru))

\* MulBy<U, X>
MulByStep == \E x \in Multipliers : Built("mul_by", MulBy(ru, x))

\* <U as Mul<V>>::Output and <U as Div<V>>::Output
UnitMulStep == \E v \in ReachOperands \cup {ru} : Built("mul", UnitMul(ru, v))
UnitDivStep == \E v \in ReachOperands \cup {ru} : Built("div", UnitDiv(ru, v))

\* <U as Simplify>::Output
UnitSimplifyStep ==
    /\ SimplifyImplemented(ru.ratio)
    /\ Built("simplify", UnitSimplify(ru))

-----------------------------------------------------------------------------
(* The fraction machine *)

NoFraction == Fraction(0, 0)

FractionInputs == {Fraction(n, d) : n \in 0..MaxNum, d \in 0..MaxNum}

InitFraction ==
    /\ fin \in FractionInputs
    /\ frac = fin
    /\ fprev = NoFraction
    /\ nsimp = 0
    /\ g = 0
    /\ fstatus = "none"

\* <N as Gcd<D>>::Output for the given fraction's N and D
GcdOp ==
    /\ fstatus = "none"
    /\ IF GcdImplemented(fin.numerator, fin.divisor)
       THEN /\ g' = Gcd(fin.numerator, fin.divisor)
            /\ fstatus' = "gcd"
       ELSE /\ g' = g
            /\ fstatus' = "no_impl"
    /\ UNCHANGED <<fin, frac, fprev, nsimp>>
    /\ UNCHANGED <<uvars, qvars, mvars, rvars, svars>>

\* <F as Simplify>::Output, applied to the current fraction
SimplifyOp ==
    /\ fstatus \in {"none", "simplified"}
    /\ nsimp < MaxSimplify
    /\ IF SimplifyImplemented(frac)
       THEN /\ frac' = Simplify(frac)
            /\ fprev' = frac
            /\ nsimp' = nsimp + 1
            /\ fstatus' = "simplified"
       ELSE /\ fstatus' = "no_impl"
            /\ UNCHANGED <<frac, fprev, nsimp>>
    /\ UNCHANGED <<fin, g>>
    /\ UNCHANGED <<uvars, qvars, mvars, rvars, svars>>

-----------------------------------------------------------------------------
(* Storage arithmetic.  S is i16, one of the integer types from_int.rs and    *)
(* checked.rs implement the storage traits for.  An operation of the storage  *)
(* type yields [panic, val, ops]: whether it panicked, its value, and how     *)
(* many storage operations were executed.                                     *)

StorageBits == 16
SMin == -(2 ^ (StorageBits - 1))
SMax == 2 ^ (StorageBits - 1) - 1

Representable(x) == SMin <= x /\ x <= SMax

\* two's complement wrap-around into SMin..SMax
Wrap(x) == ((x - SMin) % (2 ^ StorageBits)) + SMin

Abs(x) == IF x < 0 THEN -x ELSE x

\* Rust's integer division truncates towards zero
TruncDiv(a, b) ==
    IF (a < 0) = (b < 0) THEN Abs(a) \div Abs(b) ELSE -(Abs(a) \div Abs(b))

Ok(v) == [panic |-> FALSE, val |-> v, ops |-> 1]
Panic == [panic |-> TRUE, val |-> 0, ops |-> 1]

\* +, - and * panic on overflow in a build with overflow checks and wrap in
\* one without
Overflowing(x) ==
    IF Representable(x) THEN Ok(x)
    ELSE IF overflow_checks THEN Panic ELSE Ok(Wrap(x))

SAdd(a, b) == Overflowing(a + b)
SSub(a, b) == Overflowing(a - b)
SMul(a, b) == Overflowing(a * b)

\* / panics on a zero divisor and on MIN / -1 in every build
SDiv(a, b) ==
    IF b = 0 \/ (a = SMin /\ b = -1) THEN Panic ELSE Ok(TruncDiv(a, b))

\* The remainder of the absolute values.
SRemUnsigned(a, b) ==
    IF b = 0 \/ (a = SMin /\ b = -1) THEN Panic ELSE Ok(Abs(a) % Abs(b))

\* % panics on a zero divisor and on MIN % -1 in every build; the remainder
\* is a - b * (a / b) and so has the sign of the dividend
SRem(a, b) ==
    IF b = 0 \/ (a = SMin /\ b = -1) THEN Panic ELSE Ok(a - b * TruncDiv(a, b))

\* unary -: -MIN overflows
SNeg(a) == Overflowing(-a)

\* Option<S>: Some(v) or None
Some(v) == [some |-> TRUE, val |-> v]
None == [some |-> FALSE, val |-> 0]

\* Wraps instead of returning None.
SCheckedWrapping(x) == Some(Wrap(x))

\* i16::checked_add / checked_sub / checked_mul on the exact result x: None
\* on overflow
SChecked(x) == IF Representable(x) THEN Some(x) ELSE None

SCheckedAdd(a, b) == SChecked(a + b)
SCheckedSub(a, b) == SChecked(a - b)
SCheckedMul(a, b) == SChecked(a * b)

\* Checks the divisor only.
SCheckedDivZeroOnly(a, b) ==
    IF b = 0 THEN None ELSE Some(Wrap(TruncDiv(a, b)))

\* i16::checked_div: None on a zero divisor and on MIN / -1
SCheckedDiv(a, b) ==
    IF b = 0 \/ (a = SMin /\ b = -1) THEN None ELSE Some(TruncDiv(a, b))

\* r, then s (computed from r's value) unless r panicked
AndThen(r, s) ==
    IF r.panic THEN r ELSE [s EXCEPT !.ops = r.ops + s.ops]

\* The low eight bits of N.
FromUnsignedByte(n) == n % 256

\* I::from_unsigned::<N>() is N::I16, typenum's constant: the low bits of N
FromUnsigned(n) == Wrap(n)

\* Divides first.
FractionTraitMulDivFirst(f, int) ==
    LET q == SDiv(int, FromUnsigned(f.divisor))
    IN  AndThen(q, SMul(q.val, FromUnsigned(f.numerator)))

\* FractionTrait::mul: int * from_unsigned::<Numerator>() / from_unsigned::<Divisor>()
FractionTraitMul(f, int) ==
    LET m == SMul(int, FromUnsigned(f.numerator))
    IN  AndThen(m, SDiv(m.val, FromUnsigned(f.divisor)))

\* Divides first.
FractionTraitDivDivFirst(f, int) ==
    LET q == SDiv(int, FromUnsigned(f.numerator))
    IN  AndThen(q, SMul(q.val, FromUnsigned(f.divisor)))

\* Numerator and divisor as in mul.
FractionTraitDivAsMul(f, int) ==
    LET m == SMul(int, FromUnsigned(f.numerator))
    IN  AndThen(m, SDiv(m.val, FromUnsigned(f.divisor)))

\* FractionTrait::div: int * from_unsigned::<Divisor>() / from_unsigned::<Numerator>()
FractionTraitDiv(f, int) ==
    LET m == SMul(int, FromUnsigned(f.divisor))
    IN  AndThen(m, SDiv(m.val, FromUnsigned(f.numerator)))

-----------------------------------------------------------------------------
(* Quantity<S, U>: quantity.rs.  A quantity is [storage, unit]; an operation  *)
(* yields [status, storage, unit, ops] with status "ok", "panic" (at run      *)
(* time) or "rejected" (no impl for the operand types: the call does not      *)
(* compile, nothing is executed and no Quantity exists).                      *)

Quantity(s, U) == [storage |-> s, unit |-> U]

NoResult == [status |-> "none", storage |-> 0, unit |-> Dimensionless, ops |-> 0]
Rejected == [status |-> "rejected", storage |-> 0, unit |-> Dimensionless, ops |-> 0]

\* Quantity::new on the outcome of a storage computation
New(r, U) ==
    IF r.panic
    THEN [status |-> "panic", storage |-> 0, unit |-> Dimensionless, ops |-> r.ops]
    ELSE [status |-> "ok", storage |-> r.val, unit |-> U, ops |-> r.ops]

\* Any two units with equal dimensions.
SameUnitDimensionsOnly(U0, U1) == U0.dimensions = U1.dimensions

\* impl<S, U> Add for Quantity<S, U> (and Sub): Rhs is Self, the same type U
SameUnit(U0, U1) == U0 = U1

\* set_unit / into_unit: T: UnitTrait<Dimensions = U::Dimensions>
SameDimensions(U, T) == T.dimensions = U.dimensions

\* Subtracts.
QuantityAddAsSub(l, r) ==
    IF SameUnit(l.unit, r.unit)
    THEN New(SSub(l.storage, r.storage), l.unit)
    ELSE Rejected

\* Add::add: self.map(|s| s + rhs.storage)
QuantityAdd(l, r) ==
    IF SameUnit(l.unit, r.unit)
    THEN New(SAdd(l.storage, r.storage), l.unit)
    ELSE Rejected

\* Sub::sub: self.map(|s| s - rhs.storage)
QuantitySub(l, r) ==
    IF SameUnit(l.unit, r.unit)
    THEN New(SSub(l.storage, r.storage), l.unit)
    ELSE Rejected

\* Keeps the unit of the left operand.
QuantityMulKeepUnit(l, r) == New(SMul(l.storage, r.storage), l.unit)

\* Mul<Quantity<S, U1>>::mul: self.map(|s| s * rhs.storage).set_unit_unchecked()
\* with Output = Quantity<S, Prod<U0, U1>>
QuantityMul(l, r) == New(SMul(l.storage, r.storage), UnitMul(l.unit, r.unit))

\* The quotient of the storages under the unit of the left operand.
QuantityDivKeepUnit(l, r) == New(SDiv(l.storage, r.storage), l.unit)

\* Div<Quantity<S, U1>>::div: self.map(|s| s / rhs.storage).set_unit_unchecked()
\* with Output = Quantity<S, Quot<U0, U1>>
QuantityDiv(l, r) == New(SDiv(l.storage, r.storage), UnitDiv(l.unit, r.unit))

\* Rescales the storage, as into_unit does.
QuantitySetUnitConverting(q, T) ==
    IF SameDimensions(q.unit, T)
    THEN LET m == FractionTraitMul(q.unit.ratio, q.storage)
         IN  New(AndThen(m, FractionTraitDiv(T.ratio, m.val)), T)
    ELSE Rejected

\* Quantity::set_unit: Quantity::new(self.storage)
QuantitySetUnit(q, T) ==
    IF SameDimensions(q.unit, T)
    THEN [status |-> "ok", storage |-> q.storage, unit |-> T, ops |-> 0]
    ELSE Rejected

\* Quantity::into_unit: Quantity::new(T::Ratio::div(U::Ratio::mul(self.storage)))
QuantityIntoUnit(q, T) ==
    IF SameDimensions(q.unit, T)
    THEN LET m == FractionTraitMul(q.unit.ratio, q.storage)
         IN  New(AndThen(m, FractionTraitDiv(T.ratio, m.val)), T)
    ELSE Rejected

\* Quantity::into_base: self.into_unit() for Unit<U::Dimensions, One>
QuantityIntoBase(q) == QuantityIntoUnit(q, Unit(q.unit.dimensions, One))

\* Quantity::set_unit_unchecked: Quantity::new(self.storage), for any T
QuantitySetUnitUnchecked(q, T) ==
    [status |-> "ok", storage |-> q.storage, unit |-> T, ops |-> 0]

\* Quantity::set_ratio: Quantity::new(self.storage) with the unit
\* Unit<U::Dimensions, T>
QuantitySetRatio(q, R) ==
    [status |-> "ok", storage |-> q.storage,
     unit |-> Unit(q.unit.dimensions, R), ops |-> 0]

\* Quantity::into_ratio: self.into_unit() for Unit<U::Dimensions, T>
QuantityIntoRatio(q, R) == QuantityIntoUnit(q, Unit(q.unit.dimensions, R))

\* impl Simplify for Quantity<S, U> where U: Simplify:
\* self.set_unit_unchecked() with the unit U::Output
QuantitySimplify(q) ==
    IF SimplifyImplemented(q.unit.ratio)
    THEN QuantitySetUnitUnchecked(q, UnitSimplify(q.unit))
    ELSE Rejected

\* Neg::neg: Quantity::new(-self.storage)
QuantityNeg(l) == New(SNeg(l.storage), l.unit)

\* Makes the result dimensionless.
QuantityRemScalarDimensionless(l, x) == New(SRem(l.storage, x), Dimensionless)

\* Rem<S>::rem: Self::Output::new(self.storage % rhs), Output = Quantity<_, U>
QuantityRemScalar(l, x) == New(SRem(l.storage, x), l.unit)

\* Rem<Quantity<S, U1>>::rem: Self::Output::new(self.storage % rhs.storage)
\* with Output = Quantity<_, Quot<U0, U1>>
QuantityRem(l, r) == New(SRem(l.storage, r.storage), UnitDiv(l.unit, r.unit))

\* The compound assignments change self.storage in place; the outcome is the
\* left operand afterwards.  Its type, and so its unit, is that of self.
\* AddAssign::add_assign: self.storage.add_assign(rhs.storage); Rhs is Self
QuantityAddAssign(l, r) ==
    IF SameUnit(l.unit, r.unit)
    THEN New(SAdd(l.storage, r.storage), l.unit)
    ELSE Rejected

\* SubAssign::sub_assign: self.storage.sub_assign(rhs.storage)
QuantitySubAssign(l, r) ==
    IF SameUnit(l.unit, r.unit)
    THEN New(SSub(l.storage, r.storage), l.unit)
    ELSE Rejected

\* MulAssign<S>::mul_assign: self.storage.mul_assign(rhs)
QuantityMulAssign(l, x) == New(SMul(l.storage, x), l.unit)

\* DivAssign<S>::div_assign: self.storage.div_assign(rhs)
QuantityDivAssign(l, x) == New(SDiv(l.storage, x), l.unit)

\* RemAssign<S>::rem_assign: self.storage.rem_assign(rhs)
QuantityRemAssign(l, x) == New(SRem(l.storage, x), l.unit)

\* Mul<S>::mul: self.map(|s| s * rhs)
QuantityMulScalar(l, x) == New(SMul(l.storage, x), l.unit)

\* Div<S>::div: self.map(|s| s / rhs)
QuantityDivScalar(l, x) == New(SDiv(l.storage, x), l.unit)

\* Option::map(Quantity::new) on the outcome of a checked storage operation
MapNew(o, U) ==
    IF o.some
    THEN [status |-> "present", storage |-> o.val, unit |-> U, ops |-> 1]
    ELSE [status |-> "absent", storage |-> 0, unit |-> Dimensionless, ops |-> 1]

\* CheckedAdd::checked_add: self.storage.checked_add(rhs.storage).map(Self::new);
\* Rhs is Self
QuantityCheckedAdd(l, r) ==
    IF SameUnit(l.unit, r.unit)
    THEN MapNew(SCheckedAdd(l.storage, r.storage), l.unit)
    ELSE Rejected

\* CheckedSub::checked_sub: self.storage.checked_sub(rhs.storage).map(Self::new)
QuantityCheckedSub(l, r) ==
    IF SameUnit(l.unit, r.unit)
    THEN MapNew(SCheckedSub(l.storage, r.storage), l.unit)
    ELSE Rejected

\* CheckedMul<Quantity<S, U1>>::checked_mul, Output = Quantity<S, Prod<U0, U1>>
QuantityCheckedMul(l, r) ==
    MapNew(SCheckedMul(l.storage, r.storage), UnitMul(l.unit, r.unit))

\* CheckedDiv<Quantity<S, U1>>::checked_div, Output = Quantity<S, Quot<U0, U1>>
QuantityCheckedDiv(l, r) ==
    MapNew(SCheckedDiv(l.storage, r.storage), UnitDiv(l.unit, r.unit))

\* CheckedMul<S>::checked_mul: self.storage.checked_mul(rhs).map(Self::new)
QuantityCheckedMulScalar(l, x) == MapNew(SCheckedMul(l.storage, x), l.unit)

\* CheckedDiv<S>::checked_div: self.storage.checked_div(rhs).map(Self::new)
QuantityCheckedDivScalar(l, x) == MapNew(SCheckedDiv(l.storage, x), l.unit)

-----------------------------------------------------------------------------
(* The quantity machine *)

\* MIN, MAX, the small values, and the 10 and 14 of the examples of
\* FractionTrait::mul / div and of the test `rem`
StorageInputs == {SMin, SMax, 10, 14} \cup (-MaxVal..MaxVal)

\* Ratios given to set_ratio / into_ratio and to FractionTrait::mul / div:
\* 1/1, the Frac![U5 / U7] and Frac![U1 / U10] of the examples, and 1000/1
RatioInputs == { One, Fraction(5, 7), Fraction(1, 10), Fraction(1000, 1) }

\* Units of the operands and of the generic argument T: named units, and
\* Kilo<Milli<Metre>>, whose ratio 1000/1000 is not reduced.
QuantityUnits ==
    { Metre, Second, Kilo(Metre), Kilo(Milli(Metre)), MetrePerSecond, Hour }

InitQuantity ==
    /\ lhs \in {Quantity(s, U) : s \in StorageInputs, U \in QuantityUnits}
    /\ rhs \in {Quantity(s, U) : s \in StorageInputs, U \in QuantityUnits}
    /\ overflow_checks \in BOOLEAN
    /\ qop = "none"
    /\ qT = Dimensionless
    /\ qres = NoResult
    /\ numops = 0

\* the frame of an operation of the quantity machine
Applied(name, T, res) ==
    /\ qop = "none"
    /\ qop' = name
    /\ qT' = T
    /\ qres' = res
    /\ numops' = numops + res.ops
    /\ UNCHANGED <<lhs, rhs, overflow_checks>>
    /\ UNCHANGED <<fvars, uvars, mvars, rvars, svars>>

\* lhs + rhs
AddOp == Applied("add", qT, QuantityAdd(lhs, rhs))

\* lhs - rhs
SubOp == Applied("sub", qT, QuantitySub(lhs, rhs))

\* lhs * rhs
MulOp == Applied("mul", qT, QuantityMul(lhs, rhs))

\* lhs / rhs
DivOp == Applied("div", qT, QuantityDiv(lhs, rhs))

\* lhs.set_unit::<T>()
SetUnitOp == \E T \in QuantityUnits : Applied("set_unit", T, QuantitySetUnit(lhs, T))

\* lhs.into_unit::<T>()
IntoUnitOp == \E T \in QuantityUnits : Applied("into_unit", T, QuantityIntoUnit(lhs, T))

\* lhs.into_base()
IntoBaseOp == Applied("into_base", qT, QuantityIntoBase(lhs))

\* lhs * s and lhs / s, s the storage value of rhs
MulScalarOp == Applied("mul_scalar", qT, QuantityMulScalar(lhs, rhs.storage))
DivScalarOp == Applied("div_scalar", qT, QuantityDivScalar(lhs, rhs.storage))

\* lhs.checked_add(rhs), lhs.checked_sub(rhs), lhs.checked_mul(rhs),
\* lhs.checked_div(rhs)
CheckedAddOp == Applied("checked_add", qT, QuantityCheckedAdd(lhs, rhs))
CheckedSubOp == Applied("checked_sub", qT, QuantityCheckedSub(lhs, rhs))
CheckedMulOp == Applied("checked_mul", qT, QuantityCheckedMul(lhs, rhs))
CheckedDivOp == Applied("checked_div", qT, QuantityCheckedDiv(lhs, rhs))

\* lhs.checked_mul(s) and lhs.checked_div(s), s the storage value of rhs
CheckedMulScalarOp ==
    Applied("checked_mul_scalar", qT, QuantityCheckedMulScalar(lhs, rhs.storage))
CheckedDivScalarOp ==
    Applied("checked_div_scalar", qT, QuantityCheckedDivScalar(lhs, rhs.storage))

\* lhs.set_ratio::<R>() and lhs.into_ratio::<R>()
SetRatioOp ==
    \E R \in RatioInputs :
        Applied("set_ratio", Unit(lhs.unit.dimensions, R), QuantitySetRatio(lhs, R))
IntoRatioOp ==
    \E R \in RatioInputs :
        Applied("into_ratio", Unit(lhs.unit.dimensions, R), QuantityIntoRatio(lhs, R))

\* lhs.simplify()
SimplifyQuantityOp == Applied("simplify", qT, QuantitySimplify(lhs))

\* -lhs
NegOp == Applied("neg", qT, QuantityNeg(lhs))

\* lhs % rhs, and lhs % s, s the storage value of rhs
RemOp == Applied("rem", qT, QuantityRem(lhs, rhs))
RemScalarOp == Applied("rem_scalar", qT, QuantityRemScalar(lhs, rhs.storage))

\* the frame of a compound assignment: lhs is assigned unless the operation
\* panicked or does not compile
Assigned(name, res) ==
    /\ qop = "none"
    /\ qop' = name
    /\ qres' = res
    /\ lhs' = IF res.status = "ok" THEN Quantity(res.storage, res.unit) ELSE lhs
    /\ numops' = numops + res.ops
    /\ UNCHANGED <<rhs, overflow_checks, qT>>
    /\ UNCHANGED <<fvars, uvars, mvars, rvars, svars>>

\* lhs += rhs, lhs -= rhs
AddAssignOp == Assigned("add_assign", QuantityAddAssign(lhs, rhs))
SubAssignOp == Assigned("sub_assign", QuantitySubAssign(lhs, rhs))

\* lhs *= s, lhs /= s, lhs %= s, s the storage value of rhs
MulAssignOp == Assigned("mul_assign", QuantityMulAssign(lhs, rhs.storage))
DivAssignOp == Assigned("div_assign", QuantityDivAssign(lhs, rhs.storage))
RemAssignOp == Assigned("rem_assign", QuantityRemAssign(lhs, rhs.storage))

\* <F as FractionTrait>::mul(s) and ::div(s), s the storage value of lhs; the
\* fraction is kept as the ratio of qT and the value in qres
FractionTraitMulOp ==
    \E f \in RatioInputs :
        Applied("fraction_mul", Unit(Dimensionless.dimensions, f),
                New(FractionTraitMul(f, lhs.storage), Dimensionless))
FractionTraitDivOp ==
    \E f \in RatioInputs :
        Applied("fraction_div", Unit(Dimensionless.dimensions, f),
                New(FractionTraitDiv(f, lhs.storage), Dimensionless))

-----------------------------------------------------------------------------
(* The Unit! macro: macros.rs.  An invocation is a sequence of tokens; a   *)
(* token is [k, s, u, n]: a punctuation token ("op", s the symbol), an     *)
(* integer literal ("num", n) or the tokens of one type ("ty", s the way   *)
(* the type is written, u the unit it names).                              *)

Tok(k, s, u, n) == [k |-> k, s |-> s, u |-> u, n |-> n]
OpTok(s) == Tok("op", s, Dimensionless, 0)
NumTok(n) == Tok("num", "", Dimensionless, n)
\* form: "ident" (Type, path::Type), "generic" (Type<..>), "qualified"
\* (<T as Tr>::A), "paren" / "bracket" / "brace" (m!(..), m![..], m!{..})
TyTok(form, U) == Tok("ty", form, U, 0)

IsOp(t, s) == t.k = "op" /\ t.s = s
IsNum(t, n) == t.k = "num" /\ t.n = n
IsTy(t, form) == t.k = "ty" /\ t.s = form
\* a single token tree ($x:tt)
IsTT(t) == t.k # "ty" \/ t.s = "ident"

\* the tokens from the i-th on
From(r, i) == SubSeq(r, i, Len(r))

\* NoOpMul, the start of the fold
NoOpMul == [kind |-> "noop", unit |-> Dimensionless, op |-> OpTok("*")]
\* a type that is a unit
UnitTy(U) == [kind |-> "unit", unit |-> U, op |-> OpTok("*")]
\* a type position holding compile_error! of @ty_op for operation op
ErrTy(op) == [kind |-> "error", unit |-> Dimensionless, op |-> op]

\* @ty_op with {/} expanding to Mul.
TyOpDivAsMul(a, op, x) ==
    IF IsOp(op, "*") \/ IsOp(op, "/")
    THEN IF a.kind = "error" THEN a
         ELSE IF a.kind = "noop" THEN UnitTy(x.u)
         ELSE UnitTy(UnitMul(a.unit, x.u))
    ELSE ErrTy(op)

\* @ty_op with every operation expanding to Mul.
TyOpAnyAsMul(a, op, x) ==
    IF a.kind = "error" THEN a
    ELSE IF a.kind = "noop" THEN UnitTy(x.u)
    ELSE UnitTy(UnitMul(a.unit, x.u))

\* @ty_op $a {$op} $b: <$a as Mul<$b>>::Output, <$a as Div<$b>>::Output or
\* compile_error!; NoOpMul * T is T and NoOpMul / T is Dimensionless / T.
\* An operand that is itself an erroneous expansion keeps its error, unless
\* this expansion is compile_error!, which drops its operands.
TyOp(a, op, x) ==
    IF IsOp(op, "*")
    THEN IF a.kind = "error" THEN a
         ELSE IF a.kind = "noop" THEN UnitTy(x.u)
         ELSE UnitTy(UnitMul(a.unit, x.u))
    ELSE IF IsOp(op, "/")
    THEN IF a.kind = "error" THEN a
         ELSE IF a.kind = "noop" THEN UnitTy(UnitDiv(Dimensionless, x.u))
         ELSE UnitTy(UnitDiv(a.unit, x.u))
    ELSE ErrTy(op)

\* the outcome of an invocation: the unit it names, or a compile error
\* err with the token its message quotes
NoUnit == [status |-> "none", unit |-> Dimensionless, err |-> "", found |-> OpTok("")]
OkUnit(U) == [status |-> "ok", unit |-> U, err |-> "", found |-> OpTok("")]
CompileError(err, found) ==
    [status |-> "error", unit |-> Dimensionless, err |-> err, found |-> found]

\* the type the expansion ends with, as the compiler sees it
Resolve(a) ==
    IF a.kind = "unit" THEN OkUnit(a.unit)
    ELSE IF a.kind = "error" THEN CompileError("operation", a.op)
    ELSE CompileError("not_a_unit", OpTok(""))

\* Unit![tokens], as written by the user
Call(tokens) ==
    [pc |-> "call", acc |-> NoOpMul, stack |-> <<>>, rest |-> tokens, res |-> NoUnit]
\* Unit![@exec [acc] [stack] rest]
Exec(a, s, r) ==
    [pc |-> "exec", acc |-> a, stack |-> s, rest |-> r, res |-> NoUnit]
\* the expansion is over
Done(res) ==
    [pc |-> "done", acc |-> NoOpMul, stack |-> <<>>, rest |-> <<>>, res |-> res]

\* the accumulator after the pending [$op $prev], if any, is applied:
\* @ty_op $acc $( {$op} $prev )?
Applied1(c) ==
    IF c.stack = <<>> THEN c.acc ELSE TyOp(c.acc, c.stack[1], c.stack[2])

\* whether the whole of r is one type for the `ty` fragment: a type, or a
\* path type followed by `+ bound`s
RECURSIVE IsBounds(_)
IsBounds(r) ==
    \/ r = <<>>
    \/ /\ Len(r) >= 2
       /\ IsOp(r[1], "+")
       /\ IsTy(r[2], "ident") \/ IsTy(r[2], "generic")
       /\ IsBounds(From(r, 3))

IsTypeFragment(r) ==
    /\ Len(r) >= 1
    /\ r[1].k = "ty"
    /\ \/ Len(r) = 1
       \/ (IsTy(r[1], "ident") \/ IsTy(r[1], "generic")) /\ IsBounds(Tail(r))

\* ($ty:ty) => $ty.  `A + B` is a type with bounds, and a unit is no trait.
ShorthandTy(c) ==
    IF Len(c.rest) = 1
    THEN Done(OkUnit(c.rest[1].u))
    ELSE Done(CompileError("not_a_trait", c.rest[1]))

\* () => Dimensionless
ShorthandEmpty(c) == Done(OkUnit(Dimensionless))

\* ($( $anything:tt )+) => Unit![@exec [NoOpMul] [] * $anything]
StartArm(c) == Exec(NoOpMul, <<>>, <<OpTok("*")>> \o c.rest)

\* [* $x] ^ -$n rest => [/ $x] ^ $n rest, without the flip.
ExpNegMulNoFlip(c) ==
    Exec(c.acc, <<OpTok("*"), c.stack[2]>>, <<OpTok("^")>> \o From(c.rest, 3))

\* [* $x] ^ -$n rest => [/ $x] ^ $n rest
ExpNegMul(c) ==
    Exec(c.acc, <<OpTok("/"), c.stack[2]>>, <<OpTok("^")>> \o From(c.rest, 3))

\* Expands to the call it was given.
ExpNegDivUnchanged(c) == Exec(c.acc, c.stack, c.rest)

\* [/ $x] ^ -$n rest => [* $x] ^ $n rest
ExpNegDiv(c) ==
    Exec(c.acc, <<OpTok("*"), c.stack[2]>>, <<OpTok("^")>> \o From(c.rest, 3))

\* [$op $x] ^ 1 rest
Exp1(c) ==
    Exec(TyOp(c.acc, c.stack[1], c.stack[2]), <<>>, From(c.rest, 3))

\* [$op $x] ^ 2 rest
Exp2(c) ==
    Exec(TyOp(TyOp(c.acc, c.stack[1], c.stack[2]), c.stack[1], c.stack[2]),
         <<>>, From(c.rest, 3))

\* [$op $x] ^ 3 rest, with one application missing.
Exp3Twice(c) ==
    Exec(TyOp(TyOp(c.acc, c.stack[1], c.stack[2]), c.stack[1], c.stack[2]),
         <<>>, From(c.rest, 3))

\* [$op $x] ^ 3 rest
Exp3(c) ==
    Exec(TyOp(TyOp(TyOp(c.acc, c.stack[1], c.stack[2]),
                   c.stack[1], c.stack[2]), c.stack[1], c.stack[2]),
         <<>>, From(c.rest, 3))

\* [$op $x] ^ 4 rest, with one application missing.
Exp4Thrice(c) ==
    Exec(TyOp(TyOp(TyOp(c.acc, c.stack[1], c.stack[2]),
                   c.stack[1], c.stack[2]), c.stack[1], c.stack[2]),
         <<>>, From(c.rest, 3))

\* [$op $x] ^ 4 rest
Exp4(c) ==
    Exec(TyOp(TyOp(TyOp(TyOp(c.acc, c.stack[1], c.stack[2]),
                        c.stack[1], c.stack[2]), c.stack[1], c.stack[2]),
              c.stack[1], c.stack[2]),
         <<>>, From(c.rest, 3))

\* [$op $x] ^ $n rest: compile_error!("Expected exponent number in bounds
\* [-4; 4], found `$n` ...")
ExpError(c) == Done(CompileError("exponent", c.rest[2]))

\* the eight arms that take `$x_op type` from the input: the pending pair is
\* applied to the accumulator and the new pair becomes the pending one
PushType(c) ==
    Exec(Applied1(c), <<c.rest[1], c.rest[2]>>, From(c.rest, 3))

\* (@exec [ $res ] []) => $res
ReturnRes(c) == Done(Resolve(c.acc))

\* (@exec [ $acc ] [$op $last]) => @ty_op $acc {$op} $last
ReturnLast(c) == Done(Resolve(TyOp(c.acc, c.stack[1], c.stack[2])))

\* (@ $( $anything:tt )*) => compile_error!("Expected type, found `@` ...")
UnknownCommand(c) == Done(CompileError("command", OpTok("@")))

\* whether the input of an @exec call starts with `$x_op type` for a type
\* written in the given form
TypeAhead(c, form) ==
    /\ Len(c.stack) \in {0, 2}
    /\ Len(c.rest) >= 2
    /\ IsTT(c.rest[1])
    /\ IsTy(c.rest[2], form)

\* branches 6..8: `Type` must be the last token or be followed by the
\* operator and at least one more token
IdentAhead(c, op) ==
    /\ TypeAhead(c, "ident")
    /\ \/ Len(c.rest) = 2
       \/ Len(c.rest) >= 4 /\ IsOp(c.rest[3], op)

ExponentAhead(c) ==
    /\ Len(c.stack) = 2
    /\ Len(c.rest) >= 2
    /\ IsOp(c.rest[1], "^")

\* The arm a call expands by: the first one, in the order of the source,
\* whose pattern matches.
ArmOf(c) ==
    IF c.pc = "done" THEN "none"
    ELSE IF c.pc = "call"
    THEN IF IsTypeFragment(c.rest) THEN "ty"
         ELSE IF c.rest = <<>> THEN "empty"
         ELSE "start"
    ELSE IF ExponentAhead(c) /\ Len(c.rest) >= 3 /\ IsOp(c.rest[2], "-")
            /\ IsOp(c.stack[1], "*") THEN "exp_neg_mul"
    ELSE IF ExponentAhead(c) /\ Len(c.rest) >= 3 /\ IsOp(c.rest[2], "-")
            /\ IsOp(c.stack[1], "/") THEN "exp_neg_div"
    ELSE IF ExponentAhead(c) /\ IsNum(c.rest[2], 1) THEN "exp_1"
    ELSE IF ExponentAhead(c) /\ IsNum(c.rest[2], 2) THEN "exp_2"
    ELSE IF ExponentAhead(c) /\ IsNum(c.rest[2], 3) THEN "exp_3"
    ELSE IF ExponentAhead(c) /\ IsNum(c.rest[2], 4) THEN "exp_4"
    ELSE IF ExponentAhead(c) THEN "exp_error"
    ELSE IF TypeAhead(c, "generic") THEN "ty_generic"
    ELSE IF TypeAhead(c, "qualified") THEN "ty_qualified"
    ELSE IF TypeAhead(c, "paren") THEN "ty_macro_paren"
    ELSE IF TypeAhead(c, "bracket") THEN "ty_macro_bracket"
    ELSE IF TypeAhead(c, "brace") THEN "ty_macro_brace"
    ELSE IF IdentAhead(c, "*") THEN "ty_ident_mul"
    ELSE IF IdentAhead(c, "/") THEN "ty_ident_div"
    ELSE IF IdentAhead(c, "^") THEN "ty_ident_pow"
    ELSE IF c.stack = <<>> /\ c.rest = <<>> THEN "return_res"
    ELSE IF Len(c.stack) = 2 /\ c.rest = <<>> THEN "return_last"
    ELSE "unknown_command"

\* one expansion step
Expand1(c) ==
    LET arm == ArmOf(c) IN
    CASE arm = "ty" -> ShorthandTy(c)
      [] arm = "empty" -> ShorthandEmpty(c)
      [] arm = "start" -> StartArm(c)
      [] arm = "exp_neg_mul" -> ExpNegMul(c)
      [] arm = "exp_neg_div" -> ExpNegDiv(c)
      [] arm = "exp_1" -> Exp1(c)
      [] arm = "exp_2" -> Exp2(c)
      [] arm = "exp_3" -> Exp3(c)
      [] arm = "exp_4" -> Exp4(c)
      [] arm = "exp_error" -> ExpError(c)
      [] arm \in {"ty_generic", "ty_qualified", "ty_macro_paren",
                  "ty_macro_bracket", "ty_macro_brace", "ty_ident_mul",
                  "ty_ident_div", "ty_ident_pow"} -> PushType(c)
      [] arm = "return_res" -> ReturnRes(c)
      [] arm = "return_last" -> ReturnLast(c)
      [] arm = "unknown_command" -> UnknownCommand(c)
      [] OTHER -> c

\* the complete expansion of a call
RECURSIVE Expand(_)
Expand(c) == IF c.pc = "done" THEN c.res ELSE Expand(Expand1(c))

-----------------------------------------------------------------------------
(* The macro machine.  The expression given to Unit! is a sequence of      *)
(* terms `op type` or `op type ^ exp`; the operator of the first term is   *)
(* not written (the start arm supplies `*`).                               *)

Term(op, ty, pow, exp) == [op |-> op, ty |-> ty, pow |-> pow, exp |-> exp]

\* the tokens of a term: a negative exponent is `-` and a literal
Render(t, first) ==
    (IF first THEN <<>> ELSE <<OpTok(t.op)>>)
    \o <<t.ty>>
    \o (IF ~t.pow THEN <<>>
        ELSE IF t.exp < 0 THEN <<OpTok("^"), OpTok("-"), NumTok(-t.exp)>>
        ELSE <<OpTok("^"), NumTok(t.exp)>>)

RECURSIVE TokensFrom(_, _)
TokensFrom(e, i) ==
    IF i > Len(e) THEN <<>> ELSE Render(e[i], i = 1) \o TokensFrom(e, i + 1)

Tokens(e) == TokensFrom(e, 1)

\* types the drawn expressions are written with
MacroTypes ==
    { TyTok("ident", Metre), TyTok("ident", Second), TyTok("generic", Deci(Metre)) }

\* operators written between terms: the two supported ones and two others
Operators == {"*", "/", "+", "-"}

\* `* Type` and `/ Type`
PlainTerms ==
    { Term(op, ty, FALSE, 0) :
        op \in {"*", "/"},
        ty \in { TyTok("ident", Second), TyTok("generic", Deci(Metre)) } }

\* any operator, with or without an exponent in -MaxExp..MaxExp
AnyTerms ==
    { Term(op, ty, FALSE, 0) : op \in Operators, ty \in MacroTypes }
    \cup { Term(op, ty, TRUE, e) :
             op \in Operators, ty \in MacroTypes, e \in (-MaxExp)..MaxExp }

\* the expression of the terms p, with t in place of the i-th
ExpressionAt(p, i, t) == [j \in 1..Len(p) |-> IF j = i THEN t ELSE p[j]]

\* The invocations written in the documentation of Unit!, in its test and in
\* units.rs.
ExT(op, U) == Term(op, TyTok("ident", U), FALSE, 0)
ExP(op, U, e) == Term(op, TyTok("ident", U), TRUE, e)

Examples ==
    { <<>>,
      <<ExT("*", Metre), ExT("/", Second)>>,
      <<ExT("*", Metre), ExT("/", Second), ExT("*", Second), ExT("/", Second),
        ExT("*", MetrePerSecond), ExT("/", MetrePerSecond)>>,
      <<ExT("*", KiloGram), ExP("*", Metre, 2), ExP("*", Second, -3)>>,
      <<ExT("*", KiloGram), ExP("*", Metre, 2), ExP("/", Second, 3)>>,
      <<ExP("*", Metre, 2)>>,
      <<ExP("*", Metre, 4)>>,
      <<ExP("*", Metre, -4)>>,
      <<Term("*", TyTok("generic", Kilo(Metre)), FALSE, 0), ExT("/", Hour)>>,
      <<Term("*", TyTok("generic", Kilo(Metre)), TRUE, 2),
        ExT("/", Second),
        Term("*", TyTok("qualified", Second), TRUE, 1),
        Term("*", TyTok("paren", KiloGram), TRUE, 2),
        Term("*", TyTok("bracket", KiloGram), TRUE, 2),
        Term("/", TyTok("brace", KiloGram), TRUE, 2),
        ExT("*", KiloGram),
        ExT("/", KiloGram),
        ExP("*", KiloGram, -2),
        Term("/", TyTok("generic", Kilo(Metre)), TRUE, 2)>>,
      <<ExT("*", Dimensionless), ExT("/", Second)>>,
      <<ExT("*", KiloGram), ExT("*", Metre), ExP("/", Second, 2)>> }

\* An example, or an expression of 1..MaxTerms terms, all of them plain but
\* one, which is any term; the first term is written without its operator.
InitMacro ==
    /\ \/ expr \in Examples
       \/ \E n \in 1..MaxTerms :
            \E i \in 1..n, t \in AnyTerms, p \in [1..n -> PlainTerms] :
                /\ expr = ExpressionAt(p, i, t)
                /\ expr[1].op = "*"
    /\ mc = Call(Tokens(expr))
    /\ work = [pushed |-> 0, applied |-> 0, steps |-> 0]

TypeArms ==
    { "ty_generic", "ty_qualified", "ty_macro_paren", "ty_macro_bracket",
      "ty_macro_brace", "ty_ident_mul", "ty_ident_div", "ty_ident_pow" }

\* how many `@ty_op $a {$op} $b` the expansion of call c by the arm holds:
\* 1..4 for the exponent arms, one for the pending pair of a type arm and
\* of the last return arm
TyOps(arm, c) ==
    CASE arm = "exp_1" -> 1
      [] arm = "exp_2" -> 2
      [] arm = "exp_3" -> 3
      [] arm = "exp_4" -> 4
      [] arm \in TypeArms -> IF c.stack = <<>> THEN 0 ELSE 1
      [] arm = "return_last" -> 1
      [] OTHER -> 0

\* the frame of an expansion step: the call expands by the named arm
MacroStep(arm, next) ==
    /\ ArmOf(mc) = arm
    /\ mc' = next
    /\ work' = [pushed |-> work.pushed + (IF arm \in TypeArms THEN 1 ELSE 0),
                applied |-> work.applied + TyOps(arm, mc),
                steps |-> work.steps + 1]
    /\ UNCHANGED expr
    /\ UNCHANGED <<fvars, uvars, qvars, rvars, svars>>

ShorthandTyArm == MacroStep("ty", ShorthandTy(mc))
ShorthandEmptyArm == MacroStep("empty", ShorthandEmpty(mc))
StartStep == MacroStep("start", StartArm(mc))
ExpNegMulArm == MacroStep("exp_neg_mul", ExpNegMul(mc))
ExpNegDivArm == MacroStep("exp_neg_div", ExpNegDiv(mc))
Exp1Arm == MacroStep("exp_1", Exp1(mc))
Exp2Arm == MacroStep("exp_2", Exp2(mc))
Exp3Arm == MacroStep("exp_3", Exp3(mc))
Exp4Arm == MacroStep("exp_4", Exp4(mc))
ExpErrorArm == MacroStep("exp_error", ExpError(mc))
TyGenericArm == MacroStep("ty_generic", PushType(mc))
TyQualifiedArm == MacroStep("ty_qualified", PushType(mc))
TyMacroParenArm == MacroStep("ty_macro_paren", PushType(mc))
TyMacroBracketArm == MacroStep("ty_macro_bracket", PushType(mc))
TyMacroBraceArm == MacroStep("ty_macro_brace", PushType(mc))
TyIdentMulArm == MacroStep("ty_ident_mul", PushType(mc))
TyIdentDivArm == MacroStep("ty_ident_div", PushType(mc))
TyIdentPowArm == MacroStep("ty_ident_pow", PushType(mc))
ReturnResArm == MacroStep("return_res", ReturnRes(mc))
ReturnLastArm == MacroStep("return_last", ReturnLast(mc))
UnknownCommandArm == MacroStep("unknown_command", UnknownCommand(mc))

-----------------------------------------------------------------------------
(* The test `simple` of quantity.rs, one statement per step:                *)
(*   let length = a.m() + b.m();                                            *)
(*   let time = c.s() * k;                                                  *)
(*   let speed = length / time;                                             *)
(* with the test's 20, 4, 2, 3 among the values drawn for a, b, c, k.       *)

SimpleInputs == StorageInputs \cup {4, 20}

InitSimple ==
    \E a \in SimpleInputs, b \in SimpleInputs, c \in SimpleInputs, k \in SimpleInputs :
        sc = [pc |-> "length", a |-> a, b |-> b, c |-> c, k |-> k,
              length |-> NoResult, time |-> NoResult, speed |-> NoResult]

\* the frame of a statement: r is bound, and a panic ends the test
Bound(pc, next, r) ==
    /\ sc.pc = pc
    /\ sc' = [sc EXCEPT !.pc = IF r.status = "ok" THEN next ELSE "panicked",
                         ![pc] = r]
    /\ UNCHANGED <<fvars, uvars, qvars, mvars, rvars>>

\* let length = a.m() + b.m()
LengthStep ==
    Bound("length", "time", QuantityAdd(Quantity(sc.a, Metre), Quantity(sc.b, Metre)))

\* let time = c.s() * k
TimeStep ==
    Bound("time", "speed", QuantityMulScalar(Quantity(sc.c, Second), sc.k))

\* let speed = length / time
SpeedStep ==
    Bound("speed", "done",
          QuantityDiv(Quantity(sc.length.storage, sc.length.unit),
                      Quantity(sc.time.storage, sc.time.unit)))

-----------------------------------------------------------------------------
(* Specifications.  Each machine runs with the others idle.  *)

IdleFraction ==
    /\ fin = NoFraction /\ frac = NoFraction /\ fprev = NoFraction
    /\ nsimp = 0 /\ g = 0 /\ fstatus = "none"

IdleUnit ==
    /\ ua = Dimensionless /\ ub = Dimensionless /\ uc = Dimensionless
    /\ uop = "none" /\ ures = Dimensionless /\ ures2 = Dimensionless
    /\ ueq = FALSE

IdleOperands ==
    /\ lhs = Quantity(0, Dimensionless) /\ rhs = Quantity(0, Dimensionless)
    /\ qop = "none" /\ qT = Dimensionless
    /\ qres = NoResult /\ numops = 0

IdleQuantity == IdleOperands /\ overflow_checks = FALSE

IdleMacro ==
    /\ expr = <<>> /\ mc = Call(<<>>)
    /\ work = [pushed |-> 0, applied |-> 0, steps |-> 0]

IdleReach == ru = Dimensionless /\ rop = "none"

IdleSimple ==
    sc = [pc |-> "none", a |-> 0, b |-> 0, c |-> 0, k |-> 0,
          length |-> NoResult, time |-> NoResult, speed |-> NoResult]

InitF ==
    InitFraction /\ IdleUnit /\ IdleQuantity /\ IdleMacro /\ IdleReach /\ IdleSimple
NextFraction == GcdOp \/ SimplifyOp
SpecFraction == InitF /\ [][NextFraction]_vars

NextUnit == UnitMulOp \/ UnitDivOp \/ UnitEqOp \/ UnitMul3Op \/ UnitSimplifyOp
InitU ==
    IdleFraction /\ InitUnit /\ IdleQuantity /\ IdleMacro /\ IdleReach /\ IdleSimple
SpecUnit == InitU /\ [][NextUnit]_vars

NextQuantity ==
    \/ AddOp \/ SubOp \/ MulOp \/ DivOp \/ SetUnitOp \/ IntoUnitOp
    \/ IntoBaseOp \/ MulScalarOp \/ DivScalarOp
    \/ CheckedAddOp \/ CheckedSubOp \/ CheckedMulOp \/ CheckedDivOp
    \/ CheckedMulScalarOp \/ CheckedDivScalarOp
    \/ SetRatioOp \/ IntoRatioOp \/ SimplifyQuantityOp
    \/ NegOp \/ RemOp \/ RemScalarOp
    \/ AddAssignOp \/ SubAssignOp \/ MulAssignOp \/ DivAssignOp \/ RemAssignOp
    \/ FractionTraitMulOp \/ FractionTraitDivOp
InitQ ==
    IdleFraction /\ IdleUnit /\ InitQuantity /\ IdleMacro /\ IdleReach /\ IdleSimple
SpecQuantity == InitQ /\ [][NextQuantity]_vars

NextMacro ==
    \/ ShorthandTyArm \/ ShorthandEmptyArm \/ StartStep
    \/ ExpNegMulArm \/ ExpNegDivArm
    \/ Exp1Arm \/ Exp2Arm \/ Exp3Arm \/ Exp4Arm \/ ExpErrorArm
    \/ TyGenericArm \/ TyQualifiedArm
    \/ TyMacroParenArm \/ TyMacroBracketArm \/ TyMacroBraceArm
    \/ TyIdentMulArm \/ TyIdentDivArm \/ TyIdentPowArm
    \/ ReturnResArm \/ ReturnLastArm \/ UnknownCommandArm
InitM ==
    IdleFraction /\ IdleUnit /\ IdleQuantity /\ InitMacro /\ IdleReach /\ IdleSimple
SpecMacro == InitM /\ [][NextMacro]_vars

\* The compiler expands a macro call as long as one is left.
SpecMacroFair == InitM /\ [][NextMacro]_vars /\ WF_vars(NextMacro)

NextReach ==
    \/ KiloStep \/ DeciStep \/ MilliStep \/ MulByStep
    \/ UnitMulStep \/ UnitDivStep \/ UnitSimplifyStep
InitR ==
    IdleFraction /\ IdleUnit /\ IdleQuantity /\ IdleMacro /\ InitReach /\ IdleSimple
SpecReach == InitR /\ [][NextReach]_vars

\* The test runs in a build with overflow checks or in one without.
NextSimple == LengthStep \/ TimeStep \/ SpeedStep
InitS ==
    /\ IdleFraction /\ IdleUnit /\ IdleMacro /\ IdleReach
    /\ IdleOperands /\ overflow_checks \in BOOLEAN
    /\ InitSimple
SpecSimple == InitS /\ [][NextSimple]_vars

-----------------------------------------------------------------------------
(* Properties *)

\* the storage value the storage type gives for the exact result x of
\* +, - or *: x itself when it is representable, otherwise a panic (overflow
\* checks) or the representable value congruent to x modulo 2^StorageBits
IsStorageResultOf(res, x, U) ==
    IF Representable(x)
    THEN res.status = "ok" /\ res.storage = x /\ res.unit = U
    ELSE IF overflow_checks
    THEN res.status = "panic"
    ELSE /\ res.status = "ok"
         /\ res.unit = U
         /\ Representable(res.storage)
         /\ (res.storage - x) % (2 ^ StorageBits) = 0

\* q is the quotient of a by b truncated towards zero
IsTruncatedQuotient(q, a, b) ==
    LET r == a - q * b
    IN  /\ Abs(r) < Abs(b)
        /\ r = 0 \/ (r < 0) = (a < 0)

\* C1: add and sub of two quantities whose units are not strictly equal
\* (UnitEq), and set_unit / into_unit to a unit of other dimensions, are
\* rejected: no Quantity is produced and no storage operation is executed.
C1_IllegalOperationRejected ==
    /\ (qop \in {"add", "sub"} /\ ~UnitEq(lhs.unit, rhs.unit))
         => (qres = Rejected /\ numops = 0)
    /\ (qop \in {"set_unit", "into_unit"}
          /\ ~DimensionsEq(lhs.unit.dimensions, qT.dimensions))
         => (qres = Rejected /\ numops = 0)

C1_Witness ==
    /\ qop = "add"
    /\ lhs = Quantity(2, Metre)
    /\ rhs = Quantity(3, Kilo(Metre))
    /\ qres.status = "rejected"

\* C2: add (sub) of Quantity(a, U) and Quantity(b, U) is Quantity(a + b, U)
\* (Quantity(a - b, U)) with the storage type's + (-); the operation exists
\* only for two operands of the identical unit and the result carries it.
C2_AddSubSameUnit ==
    /\ qop = "add" =>
         IF lhs.unit = rhs.unit
         THEN IsStorageResultOf(qres, lhs.storage + rhs.storage, lhs.unit)
         ELSE qres.status = "rejected"
    /\ qop = "sub" =>
         IF lhs.unit = rhs.unit
         THEN IsStorageResultOf(qres, lhs.storage - rhs.storage, lhs.unit)
         ELSE qres.status = "rejected"

C2_Witness ==
    /\ qop = "add"
    /\ lhs = Quantity(2, Kilo(Metre))
    /\ rhs = Quantity(3, Kilo(Metre))
    /\ qres.status = "ok"
    /\ qres.storage = 5
    /\ qres.unit = Kilo(Metre)

\* C3: mul of Quantity(a, U0) and Quantity(b, U1) is legal for all units and
\* is Quantity(a * b, U0 * U1) with the storage type's *; div with b # 0 is
\* Quantity(a / b, U0 / U1) with the storage type's truncating /, which
\* panics on MIN / -1.
C3_MulDivAnyUnits ==
    /\ qop = "mul" =>
         IsStorageResultOf(qres, lhs.storage * rhs.storage,
                           UnitMul(lhs.unit, rhs.unit))
    /\ (qop = "div" /\ rhs.storage # 0) =>
         IF lhs.storage = SMin /\ rhs.storage = -1
         THEN qres.status = "panic"
         ELSE /\ qres.status = "ok"
              /\ IsTruncatedQuotient(qres.storage, lhs.storage, rhs.storage)
              /\ qres.unit = UnitDiv(lhs.unit, rhs.unit)

C3_Witness ==
    /\ qop = "div"
    /\ lhs = Quantity(-3, Metre)
    /\ rhs = Quantity(2, Second)
    /\ qres.status = "ok"
    /\ qres.storage = -1
    /\ qres.unit = MetrePerSecond

C5_UnitEqCrossMultiplication ==
    uop = "eq" =>
        (ueq <=> /\ \A i \in 1..7 : ua.dimensions[i] = ub.dimensions[i]
                 /\ ua.ratio.numerator * ub.ratio.divisor
                      = ub.ratio.numerator * ua.ratio.divisor)

C5_Witness ==
    /\ uop = "eq"
    /\ ua = Unit(Dimensions(1, 1, -2, 0, 0, 0, 0), Fraction(2, 4))
    /\ ub = Unit(Dimensions(1, 1, -2, 0, 0, 0, 0), Fraction(1, 2))
    /\ ueq

\* C6: for u, v not both zero the type-level gcd is the greatest common
\* divisor: it divides both and no common divisor is greater; the only pair
\* without an impl is (0, 0).
C6_GcdIsGreatestCommonDivisor ==
    /\ fstatus = "gcd" =>
         /\ g >= 1
         /\ fin.numerator % g = 0
         /\ fin.divisor % g = 0
         /\ \A k \in 1..Max(fin.numerator, fin.divisor) :
               (fin.numerator % k = 0 /\ fin.divisor % k = 0) => k <= g
    /\ fstatus = "no_impl" => (fin.numerator = 0 /\ fin.divisor = 0)

C6_Witness ==
    /\ fstatus = "gcd"
    /\ fin = Fraction(30, 42)
    /\ g = 6

\* the greatest common divisor, by its definition
GreatestCommonDivisor(n, d) ==
    CHOOSE k \in 1..Max(n, d) :
        /\ n % k = 0 /\ d % k = 0
        /\ \A j \in 1..Max(n, d) : (n % j = 0 /\ d % j = 0) => j <= k

\* C7: for d # 0, Simplify of n/d exists and is (n/gcd, d/gcd): the same
\* rational, in lowest terms; 32/12 gives 8/3 and 30/42 gives 5/7.
C7_SimplifyLowestTerms ==
    fin.divisor # 0 =>
        /\ fstatus # "no_impl"
        /\ nsimp = 1 =>
            /\ frac.numerator * GreatestCommonDivisor(fin.numerator, fin.divisor)
                 = fin.numerator
            /\ frac.divisor * GreatestCommonDivisor(fin.numerator, fin.divisor)
                 = fin.divisor
            /\ fin.numerator * frac.divisor = frac.numerator * fin.divisor
            /\ GreatestCommonDivisor(frac.numerator, frac.divisor) = 1
            /\ fin = Fraction(32, 12) => frac = Fraction(8, 3)
            /\ fin = Fraction(30, 42) => frac = Fraction(5, 7)

C7_Witness ==
    /\ nsimp = 1
    /\ fin = Fraction(32, 12)
    /\ frac = Fraction(8, 3)

\* C8: Simplify is idempotent: for d # 0 (n = 0 included) simplifying a
\* simplified fraction returns it unchanged.
C8_SimplifyIdempotent ==
    (fin.divisor # 0 /\ nsimp >= 2) => frac = fprev

C8_Witness ==
    /\ nsimp = 2
    /\ fin = Fraction(0, 7)
    /\ fprev = Fraction(0, 1)
    /\ frac = Fraction(0, 1)

\* C9: (a * b) * c and a * (b * c) have the same dimensions.
C9_DimensionAdditivity ==
    uop = "mul3" => ures.dimensions = ures2.dimensions

C9_Witness ==
    /\ uop = "mul3"
    /\ ua.dimensions = Dimensions(1, -2, 1, -1, -1, 1, 1)
    /\ ub.dimensions = Dimensions(1, 1, -2, 0, 0, 0, 0)
    /\ uc = Kilo(Metre)
    /\ ures.dimensions = Dimensions(3, -1, -1, -1, -1, 1, 1)
    /\ ures2.dimensions = Dimensions(3, -1, -1, -1, -1, 1, 1)

\* C10: u / u has all seven exponents zero and is UnitEq to Dimensionless,
\* the unit of ratio 1/1.
C10_InverseRoundtrip ==
    (uop = "div" /\ ua = ub) =>
        /\ \A i \in 1..7 : ures.dimensions[i] = 0
        /\ UnitEq(ures, Dimensionless)
        /\ ures.ratio.numerator = ures.ratio.divisor

C10_Witness ==
    /\ uop = "div"
    /\ ua = Unit(Dimensions(1, -2, 1, -1, -1, 1, 1), Fraction(2, 4))
    /\ ub = ua
    /\ ures = Unit(Dimensions(0, 0, 0, 0, 0, 0, 0), Fraction(8, 8))

-----------------------------------------------------------------------------
(* Properties of the Unit! macro *)

\* every operator is `*` or `/` and every exponent is in 1..4
WellFormed(e) ==
    /\ e # <<>>
    /\ \A i \in 1..Len(e) :
         /\ e[i].op \in {"*", "/"}
         /\ e[i].pow => e[i].exp \in 1..4

\* acc op U op U ... op U, k times
RECURSIVE FoldTerm(_, _, _, _)
FoldTerm(acc, op, U, k) ==
    IF k = 0 THEN acc
    ELSE FoldTerm(IF op = "*" THEN UnitMul(acc, U) ELSE UnitDiv(acc, U),
                  op, U, k - 1)

\* the left fold of the terms from the i-th on, in input order
RECURSIVE FoldFrom(_, _, _)
FoldFrom(acc, e, i) ==
    IF i > Len(e) THEN acc
    ELSE FoldFrom(FoldTerm(acc, e[i].op, e[i].ty.u,
                           IF e[i].pow THEN e[i].exp ELSE 1), e, i + 1)

\* the outcome of compiling the expression e
Compiled(e) == Expand(Call(Tokens(e)))

\* C11: the unit compiled from terms with operators `*`, `/` and exponents
\* 1..4 is the left fold of Mul / Div over the terms in input order, from the
\* identity unit, each term applied exponent-many times; it is not simplified.
C11_LeftFold ==
    (mc.pc = "done" /\ WellFormed(expr))
        => mc.res = OkUnit(FoldFrom(Dimensionless, expr, 1))

C11_Witness ==
    /\ mc.pc = "done"
    /\ expr = <<Term("*", TyTok("generic", Kilo(Metre)), FALSE, 0),
                Term("/", TyTok("ident", Hour), FALSE, 0)>>
    /\ mc.res.status = "ok"
    /\ mc.res.unit = Unit(Dimensions(1, 0, -1, 0, 0, 0, 0), Fraction(1000, 3600))

\* the expression with `op X ^ -n` at the i-th term turned into `op' X ^ n`
Flipped(e, i) ==
    ExpressionAt(e, i, Term(IF e[i].op = "*" THEN "/" ELSE "*",
                            e[i].ty, TRUE, -e[i].exp))

\* C12: for n in 1..4, `E * X ^ -n` compiles to what `E / X ^ n` compiles to
\* and `E / X ^ -n` to what `E * X ^ n` compiles to: the fold with the
\* flipped operator, when the expression is otherwise well formed.
C12_NegativeExponentFlips ==
    mc.pc = "done" =>
        \A i \in 2..Len(expr) :
            (expr[i].pow /\ expr[i].exp \in (-4)..(-1)
                /\ expr[i].op \in {"*", "/"})
            => /\ mc.res = Compiled(Flipped(expr, i))
               /\ WellFormed(Flipped(expr, i))
                    => mc.res = OkUnit(FoldFrom(Dimensionless, Flipped(expr, i), 1))

C12_Witness ==
    /\ mc.pc = "done"
    /\ expr = <<Term("*", TyTok("ident", KiloGram), FALSE, 0),
                Term("*", TyTok("ident", Metre), TRUE, 2),
                Term("*", TyTok("ident", Second), TRUE, -3)>>
    /\ mc.res = OkUnit(Watt)

\* C13 (as claimed): `E op X ^ 0` compiles, to the unit E compiles to.
C13_ZeroExponentIsIdentity ==
    (/\ mc.pc = "done"
     /\ Len(expr) >= 2
     /\ WellFormed(SubSeq(expr, 1, Len(expr) - 1))
     /\ expr[Len(expr)].op \in {"*", "/"}
     /\ expr[Len(expr)].pow
     /\ expr[Len(expr)].exp = 0)
        => /\ mc.res.status = "ok"
           /\ mc.res = Compiled(SubSeq(expr, 1, Len(expr) - 1))

\* C14 (as claimed): an expression with an exponent outside -4..4 (and
\* nothing else wrong) does not compile, and the error message quotes the
\* exponent as it is written, sign included.
C14_ExponentOutOfRangeNamed ==
    mc.pc = "done" =>
        \A i \in 1..Len(expr) :
            (/\ \A j \in 1..Len(expr) : expr[j].op \in {"*", "/"}
             /\ expr[i].pow
             /\ expr[i].exp \notin (-4)..4)
            => /\ mc.res.status = "error"
               /\ mc.res.err = "exponent"
               /\ mc.res.found = NumTok(expr[i].exp)

\* C15: an expression with an operator other than `*`, `/` (and `^` before
\* an exponent) between two terms never yields a unit, wherever the
\* operator is: its expansion ends in a compile error.
C15_UnsupportedOperator ==
    (\E i \in 2..Len(expr) : expr[i].op \notin {"*", "/"})
        => /\ mc.res.status # "ok"
           /\ mc.pc = "done" => mc.res.status = "error"

C15_Witness ==
    /\ mc.pc = "done"
    /\ Len(expr) = 3
    /\ expr[3] = Term("+", TyTok("ident", Metre), FALSE, 0)
    /\ mc.res.status = "error"
    /\ mc.res.err = "operation"
    /\ IsOp(mc.res.found, "+")

\* the expression ends with `* X / X`
EndsWithCancellingPair(e) ==
    /\ Len(e) >= 3
    /\ e[Len(e) - 1].op = "*" /\ ~e[Len(e) - 1].pow
    /\ e[Len(e)].op = "/" /\ ~e[Len(e)].pow
    /\ e[Len(e) - 1].ty = e[Len(e)].ty

\* C16: `E * X / X` compiles to a unit that is UnitEq to the unit E compiles
\* to (and does not compile when E does not); `Metre / Second` and
\* `Metre / Second * Second / Second * MetrePerSecond / MetrePerSecond` both
\* compile to a unit that is UnitEq to MetrePerSecond.
C16_IdentityCancels ==
    mc.pc = "done" =>
        /\ EndsWithCancellingPair(expr) =>
             LET e == Compiled(SubSeq(expr, 1, Len(expr) - 2))
             IN  /\ mc.res.status = e.status
                 /\ e.status = "ok" => UnitEq(mc.res.unit, e.unit)
        /\ (/\ Len(expr) \in {2, 6}
            /\ SubSeq(expr, 1, 2) = <<Term("*", TyTok("ident", Metre), FALSE, 0),
                                      Term("/", TyTok("ident", Second), FALSE, 0)>>
            /\ Len(expr) = 6 =>
                 SubSeq(expr, 3, 6) =
                    <<Term("*", TyTok("ident", Second), FALSE, 0),
                      Term("/", TyTok("ident", Second), FALSE, 0),
                      Term("*", TyTok("ident", MetrePerSecond), FALSE, 0),
                      Term("/", TyTok("ident", MetrePerSecond), FALSE, 0)>>)
            => /\ mc.res.status = "ok"
               /\ UnitEq(mc.res.unit, MetrePerSecond)

C16_Witness ==
    /\ mc.pc = "done"
    /\ Len(expr) = 3
    /\ expr[1] = Term("*", TyTok("ident", Metre), TRUE, 2)
    /\ expr[2] = Term("*", TyTok("generic", Deci(Metre)), FALSE, 0)
    /\ expr[3] = Term("/", TyTok("generic", Deci(Metre)), FALSE, 0)
    /\ mc.res.status = "ok"
    /\ mc.res.unit = Unit(Dimensions(2, 0, 0, 0, 0, 0, 0), Fraction(10, 10))

-----------------------------------------------------------------------------
(* Properties of the checked operators and of the conversions *)

\* the outcome of a checked +, - or * with exact result x and unit U, next to
\* the outcome unchecked of the unchecked operator
IsCheckedResultOf(res, x, U, unchecked) ==
    IF Representable(x)
    THEN /\ res.status = "present" /\ res.storage = x /\ res.unit = U
         /\ unchecked.status = "ok"
         /\ res.storage = unchecked.storage /\ res.unit = unchecked.unit
    ELSE res.status = "absent"

\* C17: checked_add, checked_sub and checked_mul (by a quantity and by a
\* scalar) are absent exactly when the exact result does not fit the storage
\* type, and otherwise present with the storage value and the unit of the
\* unchecked operator.
C17_CheckedAddSubMul ==
    /\ (qop = "checked_add" /\ lhs.unit = rhs.unit) =>
         IsCheckedResultOf(qres, lhs.storage + rhs.storage, lhs.unit,
                           QuantityAdd(lhs, rhs))
    /\ (qop = "checked_sub" /\ lhs.unit = rhs.unit) =>
         IsCheckedResultOf(qres, lhs.storage - rhs.storage, lhs.unit,
                           QuantitySub(lhs, rhs))
    /\ qop = "checked_mul" =>
         IsCheckedResultOf(qres, lhs.storage * rhs.storage,
                           UnitMul(lhs.unit, rhs.unit), QuantityMul(lhs, rhs))
    /\ qop = "checked_mul_scalar" =>
         IsCheckedResultOf(qres, lhs.storage * rhs.storage, lhs.unit,
                           QuantityMulScalar(lhs, rhs.storage))

C17_Witness ==
    /\ qop = "checked_add"
    /\ lhs = Quantity(SMax, Second)
    /\ rhs = Quantity(3, Second)
    /\ qres.status = "absent"

\* C18: checked_div by a quantity and by a scalar is absent when the
\* right-hand storage value is zero and on MIN / -1, for any units, and
\* otherwise present with the truncated quotient and the unit U0 / U1
\* (respectively U).
C18_CheckedDiv ==
    (qop \in {"checked_div", "checked_div_scalar"}) =>
        IF rhs.storage = 0 \/ (lhs.storage = SMin /\ rhs.storage = -1)
        THEN qres.status = "absent"
        ELSE /\ qres.status = "present"
             /\ IsTruncatedQuotient(qres.storage, lhs.storage, rhs.storage)
             /\ qres.unit = IF qop = "checked_div"
                             THEN UnitDiv(lhs.unit, rhs.unit) ELSE lhs.unit

C18_Witness ==
    /\ qop = "checked_div"
    /\ lhs = Quantity(3, Metre)
    /\ rhs = Quantity(2, Second)
    /\ qres.status = "present"
    /\ qres.storage = 1
    /\ qres.unit = MetrePerSecond

\* a / b truncated towards zero, for b > 0
Quot(a, b) == IF a >= 0 THEN a \div b ELSE -((-a) \div b)

\* x * a / b in the storage type, for a, b > 0 that fit it: the product
\* panics on overflow in a build with overflow checks and wraps otherwise
ScaledBy(x, a, b) ==
    IF Representable(x * a) THEN [panic |-> FALSE, val |-> Quot(x * a, b)]
    ELSE IF overflow_checks THEN [panic |-> TRUE, val |-> 0]
    ELSE [panic |-> FALSE, val |-> Quot(Wrap(x * a), b)]

\* ((v * n0) / d0) * d1 / n1, in that order
Converted(v, U0, U1) ==
    LET base == ScaledBy(v, U0.ratio.numerator, U0.ratio.divisor)
    IN  IF base.panic THEN base
        ELSE ScaledBy(base.val, U1.ratio.divisor, U1.ratio.numerator)

\* C19: into_unit::<U1> on Quantity(v, U0) with equal dimensions has storage
\* ((v * n0) / d0) * d1 / n1, evaluated in that order in the storage type,
\* and unit U1; into_base has storage (v * n0) / d0 and ratio 1/1.
C19_IntoUnitOrder ==
    /\ (qop = "into_unit" /\ lhs.unit.dimensions = qT.dimensions) =>
         LET w == Converted(lhs.storage, lhs.unit, qT)
         IN  IF w.panic THEN qres.status = "panic"
             ELSE /\ qres.status = "ok"
                  /\ qres.storage = w.val
                  /\ qres.unit = qT
    /\ qop = "into_base" =>
         LET w == ScaledBy(lhs.storage, lhs.unit.ratio.numerator,
                           lhs.unit.ratio.divisor)
         IN  IF w.panic THEN qres.status = "panic"
             ELSE /\ qres.status = "ok"
                  /\ qres.storage = w.val
                  /\ qres.unit = Unit(lhs.unit.dimensions, Fraction(1, 1))

C19_Witness ==
    /\ qop = "into_unit"
    /\ lhs = Quantity(3, Hour)
    /\ qT = Second
    /\ qres.status = "ok"
    /\ qres.storage = 10800
    /\ qres.unit = Second

\* w * (n1 / d1) = v * (n0 / d0) as exact rationals, the common factor of
\* n1 * d0 and d1 * n0 cancelled
SameMagnitude(w, U1, v, U0) ==
    LET a == U1.ratio.numerator * U0.ratio.divisor
        b == U1.ratio.divisor * U0.ratio.numerator
        c == Gcd(a, b)
    IN  w * (a \div c) = v * (b \div c)

\* C20 (as claimed): for every storage value v and units U0, U1 of equal
\* dimensions, the result w of into_unit satisfies w * U1.scale = v * U0.scale.
C20_ConversionPreservesMagnitude ==
    (/\ qop = "into_unit"
     /\ lhs.unit.dimensions = qT.dimensions
     /\ qres.status = "ok")
        => SameMagnitude(qres.storage, qT, lhs.storage, lhs.unit)

\* C20 (amended): when the numerators and divisors of both ratios are
\* non-zero and fit the storage type, neither product overflows it and both
\* divisions leave no remainder, into_unit succeeds and its result w
\* satisfies w * U1.scale = v * U0.scale.
C20_ConversionExactWhenDivisible ==
    (/\ qop = "into_unit"
     /\ lhs.unit.dimensions = qT.dimensions
     /\ \A x \in {lhs.unit.ratio.numerator, lhs.unit.ratio.divisor,
                   qT.ratio.numerator, qT.ratio.divisor} :
            x # 0 /\ Representable(x)
     /\ Representable(lhs.storage * lhs.unit.ratio.numerator)
     /\ (lhs.storage * lhs.unit.ratio.numerator) % lhs.unit.ratio.divisor = 0
     /\ LET base == (lhs.storage * lhs.unit.ratio.numerator)
                        \div lhs.unit.ratio.divisor
        IN  /\ Representable(base * qT.ratio.divisor)
            /\ (base * qT.ratio.divisor) % qT.ratio.numerator = 0)
        => /\ qres.status = "ok"
           /\ qres.unit = qT
           /\ SameMagnitude(qres.storage, qT, lhs.storage, lhs.unit)

C20_Witness ==
    /\ qop = "into_unit"
    /\ lhs = Quantity(3, Kilo(Metre))
    /\ qT = Metre
    /\ qres.status = "ok"
    /\ qres.storage = 3000

-----------------------------------------------------------------------------
(* Properties of the unit attachment, the remainder and the frame *)

\* C21: set_unit, set_ratio and simplify return a quantity with exactly the
\* storage value of the receiver and execute no storage operation (2 km
\* set_unit to Metre is 2 m); set_unit exists only for a target unit of the
\* same dimensions; into_unit, into_ratio and into_base are the ones that
\* compute the storage (two products and two quotients).
C21_UnitAttachmentKeepsStorage ==
    /\ qop = "set_unit" =>
         IF qT.dimensions = lhs.unit.dimensions
         THEN /\ qres.status = "ok"
              /\ qres.storage = lhs.storage
              /\ qres.unit = qT
         ELSE qres.status = "rejected"
    /\ qop = "set_ratio" =>
         /\ qres.status = "ok"
         /\ qres.storage = lhs.storage
         /\ qres.unit.dimensions = lhs.unit.dimensions
         /\ qres.unit.ratio = qT.ratio
    /\ qop = "simplify" =>
         /\ qres.status = "ok"
         /\ qres.storage = lhs.storage
         /\ qres.unit.dimensions = lhs.unit.dimensions
         /\ UnitEq(qres.unit, lhs.unit)
    /\ qop \in {"set_unit", "set_ratio", "simplify"} => numops = 0
    /\ (qop \in {"into_unit", "into_ratio", "into_base"} /\ qres.status = "ok")
         => numops = 4

C21_Witness ==
    /\ qop = "set_unit"
    /\ lhs = Quantity(2, Kilo(Metre))
    /\ qT = Metre
    /\ qres.status = "ok"
    /\ qres.storage = 2
    /\ qres.unit = Metre

\* r is the remainder of a by b that has the sign of a
IsTruncatedRemainder(r, a, b) ==
    /\ Abs(r) < Abs(b)
    /\ (a - r) % Abs(b) = 0
    /\ r = 0 \/ (r < 0) = (a < 0)

\* C22: rem of Quantity(a, U0) by Quantity(b, U1) is Quantity(a % b, U0 / U1)
\* and rem of Quantity(a, U) by the scalar s is Quantity(a % s, U), with the
\* storage type's %: the remainder with the sign of a, a panic for a zero
\* divisor and for MIN % -1.
C22_Remainder ==
    qop \in {"rem", "rem_scalar"} =>
        IF rhs.storage = 0 \/ (lhs.storage = SMin /\ rhs.storage = -1)
        THEN qres.status = "panic"
        ELSE /\ qres.status = "ok"
             /\ IsTruncatedRemainder(qres.storage, lhs.storage, rhs.storage)
             /\ qres.unit = IF qop = "rem"
                             THEN UnitDiv(lhs.unit, rhs.unit) ELSE lhs.unit

C22_Witness ==
    /\ qop = "rem"
    /\ lhs = Quantity(10, MetrePerSecond)
    /\ rhs = Quantity(3, Metre)
    /\ qres.status = "ok"
    /\ qres.storage = 1
    /\ qres.unit = Unit(Dimensions(0, 0, -1, 0, 0, 0, 0), Fraction(1, 1))

\* the left operand after a compound assignment whose non-assigning operator
\* gives r: that result, and the operand as it was if r is a panic
AssignedFrom(r, before, after) ==
    IF r.status = "ok"
    THEN after = Quantity(r.storage, before.unit) /\ r.unit = before.unit
    ELSE after = before

\* C24: the scalar operators, neg, add, sub and the compound assignments
\* leave the unit of the left operand unchanged, and a compound assignment
\* leaves the left operand equal to the result of its non-assigning operator;
\* mul, div and rem by a quantity (and checked_mul, checked_div) give exactly
\* the unit U0 * U1, respectively U0 / U1.
C24_UnitFrame ==
    /\ [](/\ (qop \in {"mul_scalar", "div_scalar", "rem_scalar", "neg", "add", "sub"}
                /\ qres.status = "ok")
             => qres.unit = lhs.unit
          /\ (qop \in {"checked_mul_scalar", "checked_div_scalar", "checked_add",
                       "checked_sub"} /\ qres.status = "present")
             => qres.unit = lhs.unit
          /\ (qop = "mul" /\ qres.status = "ok")
             => qres.unit = UnitMul(lhs.unit, rhs.unit)
          /\ (qop \in {"div", "rem"} /\ qres.status = "ok")
             => qres.unit = UnitDiv(lhs.unit, rhs.unit)
          /\ (qop = "checked_mul" /\ qres.status = "present")
             => qres.unit = UnitMul(lhs.unit, rhs.unit)
          /\ (qop = "checked_div" /\ qres.status = "present")
             => qres.unit = UnitDiv(lhs.unit, rhs.unit))
    /\ [][/\ qop' = "add_assign" => AssignedFrom(QuantityAdd(lhs, rhs), lhs, lhs')
          /\ qop' = "sub_assign" => AssignedFrom(QuantitySub(lhs, rhs), lhs, lhs')
          /\ qop' = "mul_assign"
               => AssignedFrom(QuantityMulScalar(lhs, rhs.storage), lhs, lhs')
          /\ qop' = "div_assign"
               => AssignedFrom(QuantityDivScalar(lhs, rhs.storage), lhs, lhs')
          /\ qop' = "rem_assign"
               => AssignedFrom(QuantityRemScalar(lhs, rhs.storage), lhs, lhs')]_vars

C24_Witness ==
    /\ qop = "rem_assign"
    /\ rhs.storage = 3
    /\ lhs = Quantity(2, Second)
    /\ qres.status = "ok"
    /\ qres.storage = 2
    /\ qres.unit = Second

\* C27: FractionTrait::mul of x by n/d is (x * n) / d and FractionTrait::div
\* is (x * d) / n: the product first, in the storage type, then its
\* truncating division; 5/7 mul 14 is 10 and 5/7 div 10 is 14.
C27_ScaleMultipliesFirst ==
    /\ qop = "fraction_mul" =>
         LET w == ScaledBy(lhs.storage, qT.ratio.numerator, qT.ratio.divisor)
         IN  /\ IF w.panic THEN qres.status = "panic"
                ELSE qres.status = "ok" /\ qres.storage = w.val
             /\ (lhs.storage = 14 /\ qT.ratio = Fraction(5, 7))
                  => (qres.status = "ok" /\ qres.storage = 10)
    /\ qop = "fraction_div" =>
         LET w == ScaledBy(lhs.storage, qT.ratio.divisor, qT.ratio.numerator)
         IN  /\ IF w.panic THEN qres.status = "panic"
                ELSE qres.status = "ok" /\ qres.storage = w.val
             /\ (lhs.storage = 10 /\ qT.ratio = Fraction(5, 7))
                  => (qres.status = "ok" /\ qres.storage = 14)

C27_Witness ==
    /\ qop = "fraction_mul"
    /\ lhs.storage = 10
    /\ qT.ratio = Fraction(5, 7)
    /\ qres.status = "ok"
    /\ qres.storage = 7

\* C30: when v, the four ratio components and both products fit the storage
\* type, into_unit returns the value ((v * n0) / d0 * d1) / n1 computed on
\* unbounded integers with the truncating quotient, in either build; each
\* component that fits the storage type is materialised by from_unsigned as
\* itself.
C30_IntoUnitExactWhenRepresentable ==
    (/\ qop = "into_unit"
     /\ lhs.unit.dimensions = qT.dimensions
     /\ \A x \in {lhs.unit.ratio.numerator, lhs.unit.ratio.divisor,
                   qT.ratio.numerator, qT.ratio.divisor} :
            x > 0 /\ Representable(x)
     /\ Representable(lhs.storage * lhs.unit.ratio.numerator)
     /\ Representable(Quot(lhs.storage * lhs.unit.ratio.numerator,
                           lhs.unit.ratio.divisor) * qT.ratio.divisor))
        => /\ qres.status = "ok"
           /\ qres.unit = qT
           /\ qres.storage =
                Quot(Quot(lhs.storage * lhs.unit.ratio.numerator,
                          lhs.unit.ratio.divisor) * qT.ratio.divisor,
                     qT.ratio.numerator)
           /\ \A x \in {lhs.unit.ratio.numerator, lhs.unit.ratio.divisor,
                         qT.ratio.numerator, qT.ratio.divisor} :
                  FromUnsigned(x) = x

C30_Witness ==
    /\ qop = "into_unit"
    /\ lhs = Quantity(-3, Kilo(Milli(Metre)))
    /\ qT = Kilo(Metre)
    /\ qres.status = "ok"
    /\ qres.storage = 0

-----------------------------------------------------------------------------
(* Properties of the reachable ratios *)

\* C23: every unit built from a base unit by Kilo, Deci, Milli, MulBy with a
\* positive multiplier, Mul, Div and Simplify has a ratio whose numerator and
\* divisor are both non-zero.
C23_RatioNeverZero ==
    rop # "none" => (ru.ratio.numerator > 0 /\ ru.ratio.divisor > 0)

C23_Witness ==
    /\ rop = "div"
    /\ ru = UnitDiv(Kilo(Metre), Minute)
    /\ ru.ratio = Fraction(1000, 60)

\* a simplified ratio is reached as well
C23_SimplifiedWitness ==
    /\ rop = "simplify"
    /\ ru.ratio = Fraction(50, 3)

-----------------------------------------------------------------------------
(* Properties of the test `simple` *)

\* the value of an integer expression evaluated in the storage type of a
\* build without overflow checks
Stored(x) == IF Representable(x) THEN x ELSE Wrap(x)

\* C25: (a m + b m) / (c s * k) evaluated with the storage type's operators
\* is a quantity whose unit is MetrePerSecond, dimensions and ratio, and whose
\* storage is the truncated quotient of a + b by c * k; the evaluation ends
\* without a panic whenever a + b and c * k fit the storage type, c * k is
\* not 0 and the quotient is not MIN / -1; (20 m + 4 m) / (2 s * 3) is 4 m/s.
C25_SimpleScenario ==
    LET sum == sc.a + sc.b
        prod == sc.c * sc.k
    IN  /\ sc.pc = "done" =>
             /\ sc.length.status = "ok" /\ sc.length.unit = Metre
             /\ sc.time.status = "ok" /\ sc.time.unit = Second
             /\ sc.speed.status = "ok"
             /\ sc.speed.unit = MetrePerSecond
             /\ sc.speed.unit.dimensions = Dimensions(1, 0, -1, 0, 0, 0, 0)
             /\ sc.speed.unit.ratio = Fraction(1, 1)
             /\ UnitEq(sc.speed.unit, MetrePerSecond)
             /\ Stored(prod) # 0
             /\ IsTruncatedQuotient(sc.speed.storage, Stored(sum), Stored(prod))
             /\ overflow_checks => (Representable(sum) /\ Representable(prod))
        /\ (/\ Representable(sum) /\ Representable(prod)
            /\ prod # 0 /\ ~(sum = SMin /\ prod = -1))
             => sc.pc # "panicked"
        /\ (sc.pc = "done" /\ sc.a = 20 /\ sc.b = 4 /\ sc.c = 2 /\ sc.k = 3)
             => sc.speed.storage = 4

C25_Witness ==
    /\ sc.pc = "done"
    /\ sc.a = 20 /\ sc.b = 4 /\ sc.c = 2 /\ sc.k = 3
    /\ sc.length.storage = 24
    /\ sc.time.storage = 6
    /\ sc.speed.status = "ok"
    /\ sc.speed.storage = 4
    /\ sc.speed.unit = MetrePerSecond

-----------------------------------------------------------------------------
(* Properties of the expansion as a computation *)

\* C26: the expansion of Unit! ends for every input, well formed or not:
\* every @exec call expands to a call with a strictly shorter input or to
\* the result, so every term is taken from the input once, in at most three
\* expansions (the type, a sign, the exponent) with at most four
\* applications of @ty_op each, and the expansion ends with a unit or with a
\* compile error.
C26_ExpansionTerminates ==
    /\ [](/\ work.pushed <= Len(expr)
          /\ work.applied <= 4 * work.pushed
          /\ work.steps <= 3 * Len(expr) + 2
          /\ mc.pc = "done" => mc.res.status \in {"ok", "error"}
          /\ (mc.pc = "done" /\ mc.res.status = "ok" /\ work.steps > 1)
                => work.pushed = Len(expr))
    /\ [][/\ (mc.pc = "exec" /\ mc'.pc = "exec")
                => Len(mc'.rest) < Len(mc.rest)
          /\ work'.applied <= work.applied + 4
          /\ work'.pushed <= work.pushed + 1]_vars
    /\ <>(mc.pc = "done")

\* a malformed input that ends in the catch-all arm
C26_Witness ==
    /\ mc.pc = "done"
    /\ Len(expr) = 3
    /\ mc.res.status = "error"
    /\ mc.res.err = "command"
    /\ work.pushed < Len(expr)

\* a well-formed input with every term taken
C26_OkWitness ==
    /\ mc.pc = "done"
    /\ Len(expr) = 3
    /\ mc.res.status = "ok"
    /\ work.pushed = 3
    /\ work.applied = 6
    /\ work.steps = 7

\* X * X * ... * X, n factors
RECURSIVE UnitPow(_, _)
UnitPow(X, n) == IF n = 1 THEN X ELSE UnitMul(UnitPow(X, n - 1), X)

\* the exponent an exponent arm expands
ExponentOf(arm) ==
    CASE arm = "exp_1" -> 1 [] arm = "exp_2" -> 2
      [] arm = "exp_3" -> 3 [] arm = "exp_4" -> 4 [] OTHER -> 0

\* the left fold of the terms from the i-th on, each term applied once, as
\* its n-th power
RECURSIVE PowerFoldFrom(_, _, _)
PowerFoldFrom(acc, e, i) ==
    IF i > Len(e) THEN acc
    ELSE LET P == UnitPow(e[i].ty.u, IF e[i].pow THEN e[i].exp ELSE 1)
         IN  PowerFoldFrom(IF e[i].op = "*" THEN UnitMul(acc, P)
                           ELSE UnitDiv(acc, P), e, i + 1)

\* C28: for n in 1..4 and op in {*, /}, the arm for `[op X] ^ n` leaves the
\* accumulator acc op X op X ... op X (n times), a unit with the dimensions
\* and the ratio numerator and divisor of acc op (X * X * ... * X), op
\* applied once to the product of n factors X.
C28_ExponentAsPower ==
    /\ [][LET n == ExponentOf(ArmOf(mc))
          IN  (/\ n \in 1..4
               /\ mc.acc.kind # "error"
               /\ IsOp(mc.stack[1], "*") \/ IsOp(mc.stack[1], "/"))
              => LET once == TyOp(mc.acc, mc.stack[1],
                                  [mc.stack[2] EXCEPT
                                     !.u = UnitPow(mc.stack[2].u, n)])
                 IN  /\ mc'.acc.kind = "unit"
                     /\ mc'.acc.unit.dimensions = once.unit.dimensions
                     /\ mc'.acc.unit.ratio.numerator = once.unit.ratio.numerator
                     /\ mc'.acc.unit.ratio.divisor = once.unit.ratio.divisor]_vars
    /\ []((mc.pc = "done" /\ WellFormed(expr))
            => /\ mc.res.status = "ok"
               /\ mc.res.unit = PowerFoldFrom(Dimensionless, expr, 1))

C28_Witness ==
    /\ mc.pc = "done"
    /\ expr = <<Term("*", TyTok("ident", Second), FALSE, 0),
                Term("/", TyTok("generic", Deci(Metre)), TRUE, 3)>>
    /\ mc.res.status = "ok"
    /\ mc.res.unit = Unit(Dimensions(-3, 0, 1, 0, 0, 0, 0), Fraction(1000, 1))
    /\ mc.res.unit = UnitDiv(Second, UnitPow(Deci(Metre), 3))

-----------------------------------------------------------------------------
(* Properties of equality against simplification *)

\* neither component of the ratio is zero
NonZeroRatio(u) == u.ratio.numerator # 0 /\ u.ratio.divisor # 0

\* the units of the dimensions of u with a ratio of non-zero components
SameDimensionUnits(u) ==
    { Unit(u.dimensions, Fraction(n, d)) : n \in 1..MaxRatio, d \in 1..MaxRatio }

\* C29: for units whose ratios have non-zero components, Ua: UnitEq<Ub>
\* holds exactly when the Simplify outputs of Ua and Ub are the same unit,
\* component for component; on these units UnitEq is reflexive, symmetric
\* and transitive; and the simplified quotient or product of units that
\* cancel is exactly Dimensionless.
C29_EqualIffSameSimplified ==
    /\ (uop = "eq" /\ NonZeroRatio(ua) /\ NonZeroRatio(ub)) =>
         /\ ueq <=> (UnitSimplify(ua) = UnitSimplify(ub))
         /\ UnitEq(ua, ua)
         /\ ueq <=> UnitEq(ub, ua)
         /\ \A c \in SameDimensionUnits(ub) \cup {Dimensionless, Metre} :
                (ueq /\ UnitEq(ub, c)) => UnitEq(ua, c)
    /\ (uop = "div_simplified" /\ NonZeroRatio(ua) /\ NonZeroRatio(ub)
            /\ UnitEq(ua, ub))
         => ures = Dimensionless
    /\ (uop = "mul_simplified" /\ NonZeroRatio(ua) /\ NonZeroRatio(ub)
            /\ UnitEq(UnitMul(ua, ub), Dimensionless))
         => ures = Dimensionless

C29_Witness ==
    /\ uop = "eq"
    /\ ua = Unit(Newton.dimensions, Fraction(2, 4))
    /\ ub = Unit(Newton.dimensions, Fraction(1, 2))
    /\ ueq
    /\ UnitSimplify(ua) = ub

\* units that cancel
C29_CancelWitness ==
    /\ uop = "div_simplified"
    /\ ua = Unit(Newton.dimensions, Fraction(2, 4))
    /\ ub = Unit(Newton.dimensions, Fraction(1, 2))
    /\ ures = Dimensionless

=============================================================================
